---- MODULE Spec2Model ----
(***************************************************************************)
(* Wordle assistant of ryan-way/puzzles: the two binaries of the wordle    *)
(* crate, src/wordle/src/main.rs (sequential) and                          *)
(* src/wordle/src/bin/solve.rs (rayon).                                    *)
(*                                                                         *)
(* Positions are 0-based as in the source; a word is a sequence of         *)
(* one-character strings, so the letter at position idx is word[idx + 1].  *)
(* A Clues value, [Color; 5], is a sequence of five colours.               *)
(***************************************************************************)
EXTENDS Integers, Sequences, FiniteSets, TLC

\* ------------------------------------------------------------------ bounds

\* Words of the feedback specification: every word of length WordLen over the
\* first AlphaSize letters of Letters, and the words of tests::test_colors.
AlphaSize == 2

Letters == <<"e", "l", "d", "v">>

\* The word banks of the suggestor specification hold at most MaxBank of the
\* words of BankWords, and at most MaxClues clues are added.
MaxBank == 4

MaxClues == 2

\* The feedback codes parsed by Clues::from_str have at most MaxCode characters.
MaxCode == 6

\* WordProcessor::new is run on words of at most MaxWord characters.
MaxWord == 65

\* Bitmask::add and Bitmask::remove are called with the positions 0..MaxPos and
\* with the last position, BitWidth - 1.
MaxPos == 2

\* Puzzle::from_str is given at most MaxLines lines.
MaxLines == 10

\* Solver::solve is run on the base puzzles and on each of them with one of
\* the cells of flat index below MaxErased made EMPTY.
MaxErased == 45

\* ------------------------------------------------------- program constants

\* Clues([Color; 5]) and array_chunks::<5>
WordLen == 5

\* (0..64) of Bitmask::values: the width of usize
BitWidth == 64

\* sudoku: [[CellValue; 9]; 9] and (0..9) of the sections
GridSize == 9

\* sudoku: the side of a subgrid
BlockSize == 3

Colors == {"GRAY", "BLACK", "YELLOW", "GREEN"}

\* a panic of a step inside a call, and the outcome of a call that panics
\* instead of returning
Panic == "panic"

PanicWith(message) == [panic |-> message]

Panicked(result) == "panic" \in DOMAIN result

\* a result not computed yet
Pending == [pending |-> TRUE]

IsPending(result) == "pending" \in DOMAIN result

\* ------------------------------------------------------------------- words

Word(a, b, c, d, e) == <<a, b, c, d, e>>

forge == Word("f", "o", "r", "g", "e")
forte == Word("f", "o", "r", "t", "e")
forze == Word("f", "o", "r", "z", "e")
soare == Word("s", "o", "a", "r", "e")
blech == Word("b", "l", "e", "c", "h")
delve == Word("d", "e", "l", "v", "e")
begem == Word("b", "e", "g", "e", "m")
saber == Word("s", "a", "b", "e", "r")
label == Word("l", "a", "b", "e", "l")
aheap == Word("a", "h", "e", "a", "p")
woken == Word("w", "o", "k", "e", "n")
welke == Word("w", "e", "l", "k", "e")
mommy == Word("m", "o", "m", "m", "y")

\* a word of the bank that tests::test_colors does not use
gutsy == Word("g", "u", "t", "s", "y")

\* a guess of clues.txt that is one letter short
fort == <<"f", "o", "r", "t">>

\* the words of tests::test_colors
TestWords ==
    {forge, forte, forze, soare, blech, delve, begem, saber, label, aheap,
     woken, welke, mommy}

Alphabet == {Letters[i] : i \in 1..AlphaSize}

AlphabetWords == [1..WordLen -> Alphabet]

\* the words from_solution is run on
FeedbackWords == AlphabetWords \cup TestWords \cup {gutsy}

\* the letters of a word, as a set
Chars(word) == {word[i] : i \in 1..Len(word)}

\* iter.take(n)
Take(seq, n) == SubSeq(seq, 1, IF n < Len(seq) THEN n ELSE Len(seq))

\* ----------------------------------------------------------------- Bitmask
\* Bitmask(usize): the usize is the set of the positions of its one bits, a
\* subset of 0..BitWidth-1; &, | and ^ work bit by bit.

\* 1 << value overflows when the shift amount is not below the width: a build
\* with overflow checks panics there
Shl_overflows(value) == value >= BitWidth

\* 1 << value: a build without overflow checks masks the shift amount to the
\* width
Shl(value) == {value % BitWidth}

\* a & b
BitAnd(a, b) == {i \in 0..(BitWidth - 1) : i \in a /\ i \in b}

\* a | b
BitOr(a, b) == {i \in 0..(BitWidth - 1) : i \in a \/ i \in b}

\* a ^ b
BitXor(a, b) == {i \in 0..(BitWidth - 1) : (i \in a) # (i \in b)}

\* Bitmask(0)
Bitmask_new == {}

\* (self.0 & 1 << value) > 0
Bitmask_has(self, value) == BitAnd(self, Shl(value)) # {}

\* self.0 |= 1 << value
Bitmask_add(self, value) == BitOr(self, Shl(value))

\* a mutant of Bitmask_remove: the bit is flipped whether it is set or not
Bitmask_remove_toggle(self, value) == BitXor(self, Shl(value))

\* if self.has(value) { self.0 ^= 1 << value }
Bitmask_remove(self, value) ==
    IF Bitmask_has(self, value) THEN BitXor(self, Shl(value)) ELSE self

\* a mutant of Bitmask_intersection: the union
Bitmask_intersection_or(self, other) == BitOr(self, other)

\* Bitmask(self.0 & other.0)
Bitmask_intersection(self, other) == BitAnd(self, other)

\* Bitmask((self.0 & other.0) ^ (self.0 | other.0))
Bitmask_symmetric_difference(self, other) ==
    BitXor(BitAnd(self, other), BitOr(self, other))

\* (idx..64).filter(|idx| value & (1 << idx) > 0); no bit is set from idx on
\* once every one bit is below idx
RECURSIVE ValuesFrom(_, _)
ValuesFrom(value, idx) ==
    IF idx = BitWidth \/ \A i \in value : i < idx THEN <<>>
    ELSE (IF BitAnd(value, Shl(idx)) # {} THEN <<idx>> ELSE <<>>)
             \o ValuesFrom(value, idx + 1)

\* a mutant of Bitmask_values: the positions in descending order
RECURSIVE ValuesDown(_, _)
ValuesDown(value, idx) ==
    IF idx = BitWidth \/ \A i \in value : i < idx THEN <<>>
    ELSE ValuesDown(value, idx + 1)
             \o (IF BitAnd(value, Shl(idx)) # {} THEN <<idx>> ELSE <<>>)

Bitmask_values_descending(self) == ValuesDown(self, 0)

\* a mutant of Bitmask_values: the range starts at 1
Bitmask_values_from_one(self) == ValuesFrom(self, 1)

\* (0..64).filter(move |idx| value & (1 << idx) > 0): ascending positions
Bitmask_values(self) == ValuesFrom(self, 0)

\* ----------------------------------------------------------- WordProcessor

\* a mutant of WordProcessor_entry: map.insert(c, ..) of a mask with idx alone
WordProcessor_entry_insert(map, c, idx) ==
    [k \in DOMAIN map \cup {c} |->
        IF k = c THEN Bitmask_add(Bitmask_new, idx) ELSE map[k]]

\* map.entry(c).or_default().add(idx)
WordProcessor_entry(map, c, idx) ==
    LET entry == IF c \in DOMAIN map THEN map[c] ELSE Bitmask_new
    IN  [k \in DOMAIN map \cup {c} |->
            IF k = c THEN Bitmask_add(entry, idx) ELSE map[k]]

\* word.chars().enumerate().for_each(..), for the characters from idx on
RECURSIVE WordProcessor_enumerate(_, _, _)
WordProcessor_enumerate(word, idx, map) ==
    IF idx >= Len(word) THEN map
    ELSE WordProcessor_enumerate(word, idx + 1,
                                 WordProcessor_entry(map, word[idx + 1], idx))

\* WordProcessor::new: the letter map, and (solve.rs) the word itself
WordProcessor_new(word) ==
    [map |-> WordProcessor_enumerate(word, 0, <<>>), word |-> word]

\* ------------------------------------- WordClues::from_solution of main.rs

\* map.insert(value, color) for every value of the sequence values
RECURSIVE InsertAll(_, _, _)
InsertAll(map, values, color) ==
    IF values = <<>> THEN map
    ELSE InsertAll([k \in DOMAIN map \cup {Head(values)} |->
                       IF k = Head(values) THEN color ELSE map[k]],
                   Tail(values), color)

\* a mutant of Main_entry: max_yellows counts every occurrence in the solution,
\* those matched exactly included
Main_entry_unfiltered(map, key, word_set, solution_processor) ==
    IF key \notin DOMAIN solution_processor.map THEN map
    ELSE LET solution_set == solution_processor.map[key]
             greens == InsertAll(map,
                           Bitmask_values(Bitmask_intersection(word_set, solution_set)),
                           "GREEN")
             max_yellows == Len(Bitmask_values(solution_set))
             NotColored(value) == value \notin DOMAIN greens
             yellows == Take(SelectSeq(Bitmask_values(word_set), NotColored),
                             max_yellows)
         IN  InsertAll(greens, yellows, "YELLOW")

\* a mutant of Main_entry: the yellows are not capped by max_yellows
Main_entry_uncapped(map, key, word_set, solution_processor) ==
    IF key \notin DOMAIN solution_processor.map THEN map
    ELSE LET solution_set == solution_processor.map[key]
             greens == InsertAll(map,
                           Bitmask_values(Bitmask_intersection(word_set, solution_set)),
                           "GREEN")
             NotColored(value) == value \notin DOMAIN greens
         IN  InsertAll(greens, SelectSeq(Bitmask_values(word_set), NotColored),
                       "YELLOW")

\* the closure of word_processor.entries().for_each: one (key, word_set) entry
Main_entry(map, key, word_set, solution_processor) ==
    IF key \notin DOMAIN solution_processor.map THEN map
    ELSE LET solution_set == solution_processor.map[key]
             greens == InsertAll(map,
                           Bitmask_values(Bitmask_intersection(word_set, solution_set)),
                           "GREEN")
             NotInWord(value) == ~Bitmask_has(word_set, value)
             max_yellows == Len(SelectSeq(Bitmask_values(solution_set), NotInWord))
             NotColored(value) == value \notin DOMAIN greens
             yellows == Take(SelectSeq(Bitmask_values(word_set), NotColored),
                             max_yellows)
         IN  InsertAll(greens, yellows, "YELLOW")

\* a mutant of Main_colors: colors starts as [GRAY; 5]
Main_colors_gray(map) ==
    IF \E key \in DOMAIN map : key >= WordLen
    THEN PanicWith("index out of bounds")
    ELSE [clues |-> [i \in 1..WordLen |->
                        IF (i - 1) \in DOMAIN map THEN map[i - 1] ELSE "GRAY"]]

\* colors = [BLACK; 5]; map.iter().for_each(|(key, value)| colors[key] = value):
\* an index of 5 or more is out of bounds
Main_colors(map) ==
    IF \E key \in DOMAIN map : key >= WordLen
    THEN PanicWith("index out of bounds")
    ELSE [clues |-> [i \in 1..WordLen |->
                        IF (i - 1) \in DOMAIN map THEN map[i - 1] ELSE "BLACK"]]

\* word_processor.entries() visited in the order of the sequence keys
RECURSIVE Main_entries(_, _, _, _)
Main_entries(map, keys, word_processor, solution_processor) ==
    IF keys = <<>> THEN map
    ELSE Main_entries(
             Main_entry(map, Head(keys), word_processor.map[Head(keys)],
                        solution_processor),
             Tail(keys), word_processor, solution_processor)

\* the order of first occurrence of the letters of a word
RECURSIVE FirstOccurrences(_, _)
FirstOccurrences(word, seen) ==
    IF word = <<>> THEN <<>>
    ELSE IF Head(word) \in seen THEN FirstOccurrences(Tail(word), seen)
    ELSE <<Head(word)>> \o FirstOccurrences(Tail(word), seen \cup {Head(word)})

\* WordClues { clues, word }
WordClues(colors, word) ==
    IF Panicked(colors) THEN colors ELSE [clues |-> colors.clues, word |-> word]

\* WordClues::from_solution of main.rs, the letter map visited in one of its
\* orders (the action MainEntry visits it in every order)
Main_from_solution(word, solution) ==
    WordClues(Main_colors(Main_entries(<<>>, FirstOccurrences(word, {}),
                                       WordProcessor_new(word),
                                       WordProcessor_new(solution))),
              word)

\* ------------------------------------ WordClues::from_solution of solve.rs

\* occurrence.insert(c, solution.word.chars().filter(|&a| a == c).count())
Solve_occurrence(solution) ==
    [c \in Chars(solution.word) |->
        Cardinality({i \in 1..Len(solution.word) : solution.word[i] = c})]

Min(a, b) == IF a < b THEN a ELSE b

\* word.chars().zip(solution.chars()).enumerate().filter(a == b).for_each(..)
\* from the pair at idx on; st is [occurrence, colors] or a panic
RECURSIVE Solve_greens(_, _, _, _)
Solve_greens(st, idx, word, solution) ==
    IF Panicked(st) \/ idx >= Min(Len(word.word), Len(solution.word)) THEN st
    ELSE LET a == word.word[idx + 1]
             b == solution.word[idx + 1]
         IN  IF a # b THEN Solve_greens(st, idx + 1, word, solution)
             ELSE IF b \in DOMAIN st.occurrence /\ st.occurrence[b] = 0
             THEN PanicWith("attempt to subtract with overflow")
             ELSE IF idx >= WordLen THEN PanicWith("index out of bounds")
             ELSE Solve_greens(
                      [occurrence |->
                          [c \in DOMAIN st.occurrence |->
                              IF c = b THEN st.occurrence[c] - 1
                              ELSE st.occurrence[c]],
                       colors |-> [st.colors EXCEPT ![idx + 1] = "GREEN"]],
                      idx + 1, word, solution)

\* a mutant of Solve_yellows: a yellow does not consume an occurrence
RECURSIVE Solve_yellows_unconsumed(_, _, _)
Solve_yellows_unconsumed(st, idx, word) ==
    IF Panicked(st) \/ idx >= Len(word.word) THEN st
    ELSE LET c == word.word[idx + 1]
         IN  IF c \notin DOMAIN st.occurrence \/ st.occurrence[c] = 0
             THEN Solve_yellows_unconsumed(st, idx + 1, word)
             ELSE IF idx >= WordLen THEN PanicWith("index out of bounds")
             ELSE IF st.colors[idx + 1] = "GREEN"
             THEN Solve_yellows_unconsumed(st, idx + 1, word)
             ELSE Solve_yellows_unconsumed(
                      [st EXCEPT !.colors[idx + 1] = "YELLOW"], idx + 1, word)

\* for (idx, c) in word.word.chars().enumerate() { .. }, from idx on
RECURSIVE Solve_yellows(_, _, _)
Solve_yellows(st, idx, word) ==
    IF Panicked(st) \/ idx >= Len(word.word) THEN st
    ELSE LET c == word.word[idx + 1]
         IN  IF c \notin DOMAIN st.occurrence \/ st.occurrence[c] = 0
             THEN Solve_yellows(st, idx + 1, word)
             ELSE IF idx >= WordLen THEN PanicWith("index out of bounds")
             ELSE IF st.colors[idx + 1] = "GREEN"
             THEN Solve_yellows(st, idx + 1, word)
             ELSE Solve_yellows(
                      [occurrence |->
                          [k \in DOMAIN st.occurrence |->
                              IF k = c THEN st.occurrence[k] - 1
                              ELSE st.occurrence[k]],
                       colors |-> [st.colors EXCEPT ![idx + 1] = "YELLOW"]],
                      idx + 1, word)

\* WordClues::from_solution of solve.rs; word and solution are WordProcessors
Solve_from_solution(word, solution) ==
    LET st == Solve_yellows(
                  Solve_greens([occurrence |-> Solve_occurrence(solution),
                                colors |-> [i \in 1..WordLen |-> "BLACK"]],
                               0, word, solution),
                  0, word)
    IN  IF Panicked(st) THEN st ELSE [clues |-> st.colors, word |-> word]

\* --------------------------------------------------------- Clues::from_str

\* s.chars().array_chunks::<5>(): the full windows of 5 characters, in order
ArrayChunks(s) ==
    [k \in 1..(Len(s) \div WordLen) |->
        SubSeq(s, WordLen * (k - 1) + 1, WordLen * k)]

\* match c { 'b' => BLACK, 'y' => YELLOW, 'g' => GREEN, _ => panic!(..) }
Color_match(c) ==
    CASE c = "b" -> "BLACK"
      [] c = "y" -> "YELLOW"
      [] c = "g" -> "GREEN"
      [] OTHER -> Panic

\* Clues::from_str: Ok(Clues(..)) as [ok |-> colours], or the panic
Clues_from_str(s) ==
    LET windows == Take(ArrayChunks(s), 1)
    IN  IF windows = <<>>
        THEN PanicWith("called Option::unwrap() on a None value")
        ELSE IF \E i \in 1..WordLen : Color_match(windows[1][i]) = Panic
        THEN PanicWith("Unsupported color")
        ELSE [ok |-> [i \in 1..WordLen |-> Color_match(windows[1][i])]]

\* a mutant of Vec_push: the new clue replaces the recorded ones
Vec_push_replace(vec, value) == <<value>>

\* self.word_clues.push(word_clue)
Vec_push(vec, value) == Append(vec, value)

\* WordClues::from_clues
WordClues_from_clues(word, clues) == [clues |-> clues, word |-> word]

\* ------------------------------------------------------------ model inputs

\* the sequence seq restricted to the indices of S, in order
RECURSIVE Restrict(_, _)
Restrict(seq, S) ==
    IF seq = <<>> THEN <<>>
    ELSE Restrict(SubSeq(seq, 1, Len(seq) - 1), S)
             \o (IF Len(seq) \in S THEN <<seq[Len(seq)]>> ELSE <<>>)

Reverse(seq) == [i \in 1..Len(seq) |-> seq[Len(seq) + 1 - i]]

BankWords == <<forge, forte, forze, soare, gutsy>>

\* the word banks: the words of a subset of BankWords, in the order of
\* BankWords or in the reverse order
Banks ==
    {bank \in {Restrict(BankWords, S) : S \in SUBSET (1..Len(BankWords))}
              \cup {Restrict(Reverse(BankWords), S) : S \in SUBSET (1..Len(BankWords))} :
        Len(bank) <= MaxBank}

\* the lines of clues.txt: a guess and the code of its feedback
ClueLines ==
    {<<forte, <<"g", "g", "g", "b", "g">> >>,
     <<forte, <<"b", "g", "y", "b", "g">> >>,
     <<soare, <<"b", "g", "b", "y", "g">> >>,
     <<soare, <<"y", "b", "b", "b", "b">> >>,
     <<fort, <<"g", "g", "g", "b", "b">> >>}

\* the characters of the codes given to Clues::from_str
CodeChars == {"b", "y", "g", "B"}

Codes == UNION {[1..n -> CodeChars] : n \in 0..MaxCode}

\* ----------------------------------------------------------- WordSuggestor
\* The code of WordSuggestor and of the rankers is the same text in main.rs and
\* in solve.rs but for the from_solution it calls and for iter / par_iter;
\* binary is "main" or "solve".

Binaries == {"main", "solve"}

Rankers == {"LowestMaxBucketRanker", "LargestUniqueValuesRanker"}

\* WordClues::from_solution of the binary (solve.rs keeps WordProcessors)
Binary_from_solution(binary, word, solution) ==
    IF binary = "main" THEN Main_from_solution(word, solution)
    ELSE Solve_from_solution(WordProcessor_new(word), WordProcessor_new(solution))

\* the words of the banks and of the clue lines
KnownWords == {BankWords[i] : i \in 1..Len(BankWords)} \cup {line[1] : line \in ClueLines}

\* from_solution on the known words, computed once
FromSolutionTable ==
    [binary \in Binaries |-> [word \in KnownWords |-> [solution \in KnownWords |->
        Binary_from_solution(binary, word, solution)]]]

\* a mutant of from_solution: the guess and the solution swapped
from_solution_swapped(binary, word, solution) ==
    FromSolutionTable[binary][solution][word]

\* from_solution as suggest_word and the rankers call it
from_solution(binary, word, solution) ==
    FromSolutionTable[binary][word][solution]

\* a mutant of clues_all: any clue instead of all clues
RECURSIVE clues_any(_, _, _, _)
clues_any(binary, clue_list, k, solution) ==
    IF k > Len(clue_list) THEN [all |-> clue_list = <<>>]
    ELSE LET colors == from_solution(binary, clue_list[k].word, solution)
         IN  IF Panicked(colors) THEN colors
             ELSE IF colors.clues = clue_list[k].clues THEN [all |-> TRUE]
             ELSE clues_any(binary, clue_list, k + 1, solution)

\* a mutant of clues_all: the clue added last alone is compared
clues_last(binary, clue_list, k, solution) ==
    IF clue_list = <<>> THEN [all |-> TRUE]
    ELSE LET last == clue_list[Len(clue_list)]
             colors == from_solution(binary, last.word, solution)
         IN  IF Panicked(colors) THEN colors
             ELSE [all |-> colors.clues = last.clues]

\* self.word_clues.iter().all(|clue| from_solution(clue.word, solution)
\*     .get_colors() == clue.get_colors()), from clue k on; all stops at the
\* first clue that differs
RECURSIVE clues_all(_, _, _, _)
clues_all(binary, clue_list, k, solution) ==
    IF k > Len(clue_list) THEN [all |-> TRUE]
    ELSE LET colors == from_solution(binary, clue_list[k].word, solution)
         IN  IF Panicked(colors) THEN colors
             ELSE IF colors.clues # clue_list[k].clues THEN [all |-> FALSE]
             ELSE clues_all(binary, clue_list, k + 1, solution)

\* a mutant of bank_filter: the first entry is skipped, as by iter().skip(1)
RECURSIVE bank_filter_skip(_, _, _, _)
bank_filter_skip(binary, bank, clue_list, i) ==
    IF i > Len(bank) THEN [kept |-> <<>>]
    ELSE IF i = 1 THEN bank_filter_skip(binary, bank, clue_list, 2)
    ELSE LET keep == clues_all(binary, clue_list, 1, bank[i])
         IN  IF Panicked(keep) THEN keep
             ELSE LET rest == bank_filter_skip(binary, bank, clue_list, i + 1)
                  IN  IF Panicked(rest) THEN rest
                      ELSE [kept |-> (IF keep.all THEN <<bank[i]>> ELSE <<>>)
                                         \o rest.kept]

\* self.word_bank.iter().filter(..).collect(), from bank entry i on:
\* [kept |-> the words kept, in bank order], or the panic
RECURSIVE bank_filter(_, _, _, _)
bank_filter(binary, bank, clue_list, i) ==
    IF i > Len(bank) THEN [kept |-> <<>>]
    ELSE LET keep == clues_all(binary, clue_list, 1, bank[i])
         IN  IF Panicked(keep) THEN keep
             ELSE LET rest == bank_filter(binary, bank, clue_list, i + 1)
                  IN  IF Panicked(rest) THEN rest
                      ELSE [kept |-> (IF keep.all THEN <<bank[i]>> ELSE <<>>)
                                         \o rest.kept]

\* possible_solutions of suggest_word
suggest_possible_solutions(binary, bank, clue_list) ==
    bank_filter(binary, bank, clue_list, 1)

\* solutions.iter().map(|solution| from_solution(word, solution).into())
rank_clues(binary, solutions, word) ==
    [i \in 1..Len(solutions) |-> from_solution(binary, word, solutions[i])]

SetMax(S) == CHOOSE x \in S : \A y \in S : y <= x

\* a mutant of Buckets: the count of a bucket is set to 1, not incremented
Buckets_insert_one(feedbacks) ==
    [c \in {feedbacks[i].clues : i \in 1..Len(feedbacks)} |-> 1]

\* the HashMap<Clues, usize> of LowestMaxBucketRanker::rank: how many of the
\* feedbacks are each Clues value
Buckets(feedbacks) ==
    [c \in {feedbacks[i].clues : i \in 1..Len(feedbacks)} |->
        Cardinality({i \in 1..Len(feedbacks) : feedbacks[i].clues = c})]

\* LowestMaxBucketRanker::rank: [rank |-> n], or the panic
\* (max() of no bucket is None, and unwrap panics)
LowestMaxBucketRanker_rank(binary, solutions, word) ==
    LET feedbacks == rank_clues(binary, solutions, word)
        panics == {i \in 1..Len(feedbacks) : Panicked(feedbacks[i])}
    IN  IF panics # {} THEN feedbacks[CHOOSE i \in panics : \A j \in panics : i <= j]
        ELSE IF feedbacks = <<>>
        THEN PanicWith("called Option::unwrap() on a None value")
        ELSE LET map == Buckets(feedbacks)
             IN  [rank |-> Len(solutions) - SetMax({map[c] : c \in DOMAIN map})]

\* a mutant of LargestUniqueValuesRanker::rank: the feedbacks are collected in a
\* Vec and dedup() drops only the repetitions that are adjacent
LargestUniqueValuesRanker_rank_dedup(binary, solutions, word) ==
    LET feedbacks == rank_clues(binary, solutions, word)
        panics == {i \in 1..Len(feedbacks) : Panicked(feedbacks[i])}
    IN  IF panics # {} THEN feedbacks[CHOOSE i \in panics : \A j \in panics : i <= j]
        ELSE [rank |-> Cardinality({i \in 1..Len(feedbacks) :
                           i = 1 \/ feedbacks[i].clues # feedbacks[i - 1].clues})]

\* a mutant of LargestUniqueValuesRanker::rank: the feedbacks are counted, not
\* the distinct ones
LargestUniqueValuesRanker_rank_all(binary, solutions, word) ==
    LET feedbacks == rank_clues(binary, solutions, word)
        panics == {i \in 1..Len(feedbacks) : Panicked(feedbacks[i])}
    IN  IF panics # {} THEN feedbacks[CHOOSE i \in panics : \A j \in panics : i <= j]
        ELSE [rank |-> Len(feedbacks)]

\* LargestUniqueValuesRanker::rank: [rank |-> n], or the panic
LargestUniqueValuesRanker_rank(binary, solutions, word) ==
    LET feedbacks == rank_clues(binary, solutions, word)
        panics == {i \in 1..Len(feedbacks) : Panicked(feedbacks[i])}
    IN  IF panics # {} THEN feedbacks[CHOOSE i \in panics : \A j \in panics : i <= j]
        ELSE [rank |-> Cardinality({feedbacks[i].clues : i \in 1..Len(feedbacks)})]

\* a mutant of Ranker_rank: every word has the rank 0
Ranker_rank_zero(binary, ranker, solutions, word) == [rank |-> 0]

\* ranker.rank(&possible_solutions, word)
Ranker_rank(binary, ranker, solutions, word) ==
    IF ranker = "LowestMaxBucketRanker"
    THEN LowestMaxBucketRanker_rank(binary, solutions, word)
    ELSE LargestUniqueValuesRanker_rank(binary, solutions, word)

\* a mutant of max_key: of two equal keys the left one
max_key_left(a, b) == IF b.key > a.key THEN b ELSE a

\* what max_by_key keeps of two (key, item) pairs, a left of b: std's fold and
\* rayon's max_key both keep a on Ordering::Greater and b otherwise
max_key(a, b) == IF a.key > b.key THEN a ELSE b

\* a mutant of iter_max_by_key: a later entry replaces the maximum so far only
\* when its key is greater
RECURSIVE iter_max_by_key_first(_, _, _)
iter_max_by_key_first(scored, i, acc) ==
    IF i > Len(scored) THEN acc
    ELSE iter_max_by_key_first(scored, i + 1,
                               IF scored[i].key > acc.key THEN scored[i] ELSE acc)

\* Iterator::max_by_key of main.rs: the left-to-right fold of max_key over the
\* scored entries from index i on, acc the maximum so far
RECURSIVE iter_max_by_key(_, _, _)
iter_max_by_key(scored, i, acc) ==
    IF i > Len(scored) THEN acc
    ELSE iter_max_by_key(scored, i + 1, max_key(acc, scored[i]))

\* the (key, item) pairs of the bank entries named by items, scored against
\* solutions: [scored |-> the pairs], or the panic of the first rank that
\* panics with the number of calls made
scored_entries(binary, ranker, solutions, bank, items) ==
    LET keys == [i \in 1..Len(items) |->
                    Ranker_rank(binary, ranker, solutions, bank[items[i]])]
        panics == {i \in 1..Len(items) : Panicked(keys[i])}
    IN  IF panics # {}
        THEN LET first == CHOOSE i \in panics : \A j \in panics : i <= j
             IN  [panic |-> keys[first].panic, calls |-> first]
        ELSE [scored |-> [i \in 1..Len(items) |->
                             [key |-> keys[i].rank, item |-> items[i]]]]

\* a mutant of suggest_items: only the bank entries that are possible solutions
suggest_items_candidates(bank, solutions) ==
    SelectSeq([i \in 1..Len(bank) |-> i],
              LAMBDA i : \E k \in 1..Len(solutions) : solutions[k] = bank[i])

\* the entries max_by_key runs over: the whole word bank
suggest_items(bank, solutions) == [i \in 1..Len(bank) |-> i]

\* a mutant of no_solution: the check is left out
no_solution_never(solutions) == FALSE

\* a mutant of no_solution: the length is compared with 1
no_solution_one(solutions) == Len(solutions) = 1

\* possible_solutions.len() == 0 (main.rs), possible_solutions.is_empty() (solve.rs)
no_solution(solutions) == Len(solutions) = 0

\* a mutant of single_solution: the check is left out
single_solution_never(solutions) == FALSE

\* possible_solutions.len() == 1
single_solution(solutions) == Len(solutions) = 1

\* suggest_word of main.rs: [result |-> [returned |-> the String] or the panic,
\* rank_calls |-> the calls of ranker.rank made]; max_by_key of no entry is
\* None, and unwrap panics
Main_suggest_call(bank, clue_list, ranker) ==
    LET filtered == suggest_possible_solutions("main", bank, clue_list)
    IN  IF Panicked(filtered) THEN [result |-> filtered, rank_calls |-> 0]
        ELSE IF no_solution(filtered.kept)
        THEN [result |-> [returned |-> <<>>], rank_calls |-> 0]
        ELSE IF single_solution(filtered.kept)
        THEN [result |-> [returned |-> filtered.kept[1]], rank_calls |-> 0]
        ELSE LET items == suggest_items(bank, filtered.kept)
                 entries == scored_entries("main", ranker, filtered.kept, bank, items)
             IN  IF items = <<>>
                 THEN [result |-> PanicWith("called Option::unwrap() on a None value"),
                       rank_calls |-> 0]
                 ELSE IF Panicked(entries)
                 THEN [result |-> entries, rank_calls |-> entries.calls]
                 ELSE [result |->
                          [returned |->
                              bank[iter_max_by_key(entries.scored, 2,
                                                   entries.scored[1]).item]],
                       rank_calls |-> Len(items)]

\* what suggest_word of main.rs returns: [returned |-> the String], or the panic
Main_suggest_word(bank, clue_list, ranker) ==
    LET result == Main_suggest_call(bank, clue_list, ranker).result
    IN  IF Panicked(result) THEN PanicWith(result.panic) ELSE result

\* ------------------------------------------------------- sudoku: the indexes
\* src/sudoku/src/main.rs. A CellIndex is [x |-> column, y |-> row], 0-based
\* as in the source; a Vec is a sequence, so element idx of it is at idx + 1.

CellIndex_new(x, y) == [x |-> x, y |-> y]

\* Into<RowIndex> for CellIndex
CellIndex_into_RowIndex(self) == self.y

\* Into<ColumnIndex> for CellIndex
CellIndex_into_ColumnIndex(self) == self.x

\* Into<SubgridIndex> for CellIndex
CellIndex_into_SubgridIndex(self) ==
    (self.y \div BlockSize) * BlockSize + self.x \div BlockSize

\* (0..9).map(|idx| CellIndex::new(idx, self.idx)).collect()
RowIndex_cells(self) == [i \in 1..GridSize |-> CellIndex_new(i - 1, self)]

\* (0..9).map(|idx| CellIndex::new(self.idx, idx)).collect()
ColumnIndex_cells(self) == [i \in 1..GridSize |-> CellIndex_new(self, i - 1)]

\* a mutant of SubgridIndex_cells: root_x and root_y swapped
SubgridIndex_cells_transposed(self) ==
    LET root_x == (self \div BlockSize) * BlockSize
        root_y == (self % BlockSize) * BlockSize
    IN  [i \in 1..GridSize |->
            CellIndex_new(root_x + ((i - 1) % BlockSize),
                          root_y + ((i - 1) \div BlockSize))]

\* (0..9).map(|idx| CellIndex::new(root_x + (idx % 3), root_y + (idx / 3)))
SubgridIndex_cells(self) ==
    LET root_x == (self % BlockSize) * BlockSize
        root_y == (self \div BlockSize) * BlockSize
    IN  [i \in 1..GridSize |->
            CellIndex_new(root_x + ((i - 1) % BlockSize),
                          root_y + ((i - 1) \div BlockSize))]

\* get_rows, get_cols, get_subgrids: the sections of the indexes 0..8, in order
Puzzle_get_rows == [i \in 1..GridSize |-> i - 1]

Puzzle_get_cols == [i \in 1..GridSize |-> i - 1]

Puzzle_get_subgrids == [i \in 1..GridSize |-> i - 1]

\* get_cells: (0..9).flat_map(|y| (0..9).map(move |x| CellIndex::new(x, y)))
Puzzle_get_cells ==
    [i \in 1..(GridSize * GridSize) |->
        CellIndex_new((i - 1) % GridSize, (i - 1) \div GridSize)]

\* ----------------------------------------------------- sudoku: the puzzle
\* CellValue is 0 for EMPTY and 1..9 for ONE..NINE; Puzzle([[CellValue; 9]; 9])
\* is a sequence of rows, so the value of the cell (x, y) is puzzle[y + 1][x + 1].

EMPTY == 0

Digits == <<"1", "2", "3", "4", "5", "6", "7", "8", "9">>

\* match c { '9' => NINE, .., '1' => ONE, _ => EMPTY }
CellValue_from_char(c) ==
    IF \E v \in 1..Len(Digits) : Digits[v] = c
    THEN CHOOSE v \in 1..Len(Digits) : Digits[v] = c
    ELSE EMPTY

\* a Result: Ok(value) or Err(message)
Ok(value) == [ok |-> value]

Err(message) == [err |-> message]

IsOk(result) == "ok" \in DOMAIN result

\* row.chars().array_chunks::<9>().next().ok_or("Wrong number of cols")
Puzzle_row_chunk(row) ==
    IF Len(row) >= GridSize THEN Ok(SubSeq(row, 1, GridSize))
    ELSE Err("Wrong number of cols")

\* s.lines().flat_map(|row| ..): flat_map iterates each Result, which yields
\* the value of an Ok and nothing for an Err
RECURSIVE Puzzle_char_rows(_)
Puzzle_char_rows(lines) ==
    IF lines = <<>> THEN <<>>
    ELSE LET chunk == Puzzle_row_chunk(Head(lines))
         IN  (IF IsOk(chunk) THEN <<chunk.ok>> ELSE <<>>)
                 \o Puzzle_char_rows(Tail(lines))

\* Puzzle::from_str: .array_chunks::<9>().next().ok_or("Wrong number of rows")?
\* and the characters mapped to cell values
Puzzle_from_str(lines) ==
    LET rows == Puzzle_char_rows(lines)
    IN  IF Len(rows) < GridSize THEN Err("Wrong number of rows")
        ELSE Ok([y \in 1..GridSize |->
                    [x \in 1..GridSize |-> CellValue_from_char(rows[y][x])]])

\* ------------------------------------------------------ sudoku: the solver

\* Cell::value: self.puzzle.0[self.idx.y][self.idx.x]
Cell_value(p, idx) == p[idx.y + 1][idx.x + 1]

\* Section::nonempty_cells of the section with these cells
Section_nonempty_cells(p, cells) ==
    SelectSeq(cells, LAMBDA idx : Cell_value(p, idx) # EMPTY)

\* Section::empty_cells of the section with these cells
Section_empty_cells(p, cells) ==
    SelectSeq(cells, LAMBDA idx : Cell_value(p, idx) = EMPTY)

\* the cells of Cell::row, Cell::col and Cell::subgrid, one after the other
Cell_sections(idx) ==
    RowIndex_cells(CellIndex_into_RowIndex(idx))
        \o ColumnIndex_cells(CellIndex_into_ColumnIndex(idx))
        \o SubgridIndex_cells(CellIndex_into_SubgridIndex(idx))

\* a mutant of Cell_get_eliminated_values: the subgrid is left out
Cell_get_eliminated_values_lines(p, idx) ==
    LET cells == Section_nonempty_cells(p,
                     RowIndex_cells(CellIndex_into_RowIndex(idx))
                         \o ColumnIndex_cells(CellIndex_into_ColumnIndex(idx)))
    IN  {Cell_value(p, cells[i]) : i \in 1..Len(cells)}

\* Cell::get_eliminated_values: the values of the non-empty cells of the row,
\* the column and the subgrid, collected in a HashSet
Cell_get_eliminated_values(p, idx) ==
    LET cells == Section_nonempty_cells(p, Cell_sections(idx))
    IN  {Cell_value(p, cells[i]) : i \in 1..Len(cells)}

\* Cell::get_possible_values: COMPLETE but EMPTY, less the eliminated values;
\* the callers use the length, the only element and contains, so the order of
\* the Vec made from the HashSet does not matter
Cell_get_possible_values(p, idx) ==
    (1..GridSize) \ Cell_get_eliminated_values(p, idx)

\* Puzzle::get_empty_cells
Puzzle_get_empty_cells(p) == Section_empty_cells(p, Puzzle_get_cells)

\* a mutant of last_possible: every cell, not only the empty ones
last_possible_any_cell(p) ==
    LET cells == SelectSeq(Puzzle_get_cells,
                     LAMBDA idx : Cardinality(Cell_get_possible_values(p, idx)) = 1)
    IN  [i \in 1..Len(cells) |->
            [idx |-> cells[i],
             value |-> CHOOSE v \in Cell_get_possible_values(p, cells[i]) : TRUE]]

\* last_possible: an Assignment for every empty cell with one possible value,
\* in the order of get_cells
last_possible(p) ==
    LET cells == SelectSeq(Puzzle_get_empty_cells(p),
                     LAMBDA idx : Cardinality(Cell_get_possible_values(p, idx)) = 1)
    IN  [i \in 1..Len(cells) |->
            [idx |-> cells[i],
             value |-> CHOOSE v \in Cell_get_possible_values(p, cells[i]) : TRUE]]

\* possible_cells of last_remaining for a subgrid and a value
last_remaining_possible_cells(p, subgrid, value) ==
    SelectSeq(Section_empty_cells(p, SubgridIndex_cells(subgrid)),
              LAMBDA idx : value \in Cell_get_possible_values(p, idx))

\* last_remaining: for every subgrid and every value of COMPLETE but EMPTY, in
\* this order, an Assignment when one empty cell alone can take the value
last_remaining(p) ==
    LET pairs == [k \in 1..(GridSize * GridSize) |->
                     [subgrid |-> Puzzle_get_subgrids[((k - 1) \div GridSize) + 1],
                      value |-> ((k - 1) % GridSize) + 1]]
        found == SelectSeq(pairs,
                     LAMBDA pair :
                         Len(last_remaining_possible_cells(p, pair.subgrid,
                                                           pair.value)) = 1)
    IN  [i \in 1..Len(found) |->
            [idx |-> last_remaining_possible_cells(p, found[i].subgrid,
                                                   found[i].value)[1],
             value |-> found[i].value]]

\* Puzzle::set_cell
Puzzle_set_cell(p, idx, value) == [p EXCEPT ![idx.y + 1][idx.x + 1] = value]

\* for assignment in assignments { self.puzzle.set_cell(..) }
RECURSIVE Solver_set_cells(_, _)
Solver_set_cells(p, assignments) ==
    IF assignments = <<>> THEN p
    ELSE Solver_set_cells(Puzzle_set_cell(p, Head(assignments).idx,
                                          Head(assignments).value),
                          Tail(assignments))

\* Section::is_valid: the non-empty values are as many as the different ones
Section_is_valid(p, cells) ==
    LET values == Section_nonempty_cells(p, cells)
    IN  Cardinality({Cell_value(p, values[i]) : i \in 1..Len(values)}) = Len(values)

\* Puzzle::is_valid
Puzzle_is_valid(p) ==
    /\ \A i \in 1..GridSize : Section_is_valid(p, RowIndex_cells(Puzzle_get_rows[i]))
    /\ \A i \in 1..GridSize : Section_is_valid(p, ColumnIndex_cells(Puzzle_get_cols[i]))
    /\ \A i \in 1..GridSize :
           Section_is_valid(p, SubgridIndex_cells(Puzzle_get_subgrids[i]))

\* ------------------------------------------------------------------- state

VARIABLES
    pc,           \* where the modelled run is
    fb_word,      \* from_solution: the guess
    fb_solution,  \* from_solution: the solution
    fb_entries,   \* main.rs: the keys word_processor.entries() has yet to yield
    fb_map,       \* main.rs: map, position -> Color
    fb_main,      \* main.rs: the WordClues returned
    fb_solve,     \* solve.rs: the WordClues returned
    word_bank,    \* WordSuggestor.word_bank
    word_clues,   \* WordSuggestor.word_clues
    call_binary,  \* suggest_word: the binary whose suggest_word was called last
    call_ranker,  \* suggest_word: the ranker of that call
    possible_solutions,  \* suggest_word: possible_solutions of that call
    tasks,        \* the entries max_by_key scores: one per entry in main.rs, joined pieces in solve.rs
    suggestion,   \* suggest_word: what that call returned
    rank_calls,   \* suggest_word: the calls of ranker.rank made by that call
    code,         \* Clues::from_str: the string parsed
    parsed,       \* Clues::from_str: the result
    overflow_checks,  \* the build: whether arithmetic overflow panics
    wp_word,      \* WordProcessor::new: the word
    wp_idx,       \* WordProcessor::new: the characters enumerated so far
    wp_map,       \* WordProcessor::new: map
    bm_self,      \* a Bitmask
    bm_other,     \* another Bitmask
    bm_last,      \* of each position, the last of add and remove called on bm_self
    bm_out,       \* what values, intersection and symmetric_difference returned
    gr_idx,       \* sudoku: a CellIndex
    gr_into,      \* sudoku: the RowIndex, ColumnIndex and SubgridIndex it converts into
    gr_cells,     \* sudoku: cells() of these three indexes
    pz_lines,     \* sudoku, Puzzle::from_str: s.lines()
    pz_result,    \* sudoku, Puzzle::from_str: the Result returned
    play_solution,  \* the play loop: the solution the feedback is taken against
    puzzle,       \* sudoku, Solver.puzzle
    change,       \* sudoku, Solver::solve: change
    sv_initial,   \* sudoku: the puzzle Solver::solve was called on
    sv_productive,  \* sudoku: the loop iterations so far that made an assignment
    sv_assignments  \* sudoku, Solver::solve: assignments

fb_vars == <<fb_word, fb_solution, fb_entries, fb_map, fb_main, fb_solve>>

call_vars == <<call_binary, call_ranker, possible_solutions, tasks, suggestion,
               rank_calls>>

sg_vars == <<word_bank, word_clues, call_binary, call_ranker, possible_solutions, tasks,
             suggestion, rank_calls>>

str_vars == <<code, parsed>>

wp_vars == <<overflow_checks, wp_word, wp_idx, wp_map>>

\* the variables of the specifications that follow the suggestor's
bm_vars == <<bm_self, bm_other, bm_last, bm_out>>

gr_vars == <<gr_idx, gr_into, gr_cells>>

pz_vars == <<pz_lines, pz_result>>

sv_vars == <<puzzle, change, sv_initial, sv_productive, sv_assignments>>

ext_vars == <<wp_vars, bm_vars, gr_vars, pz_vars, play_solution, sv_vars>>

vars == <<pc, fb_vars, sg_vars, str_vars, ext_vars>>

\* the variables of from_solution, in the specifications that do not run it alone
FeedbackIdle ==
    /\ fb_word = <<>>
    /\ fb_solution = <<>>
    /\ fb_entries = {}
    /\ fb_map = <<>>
    /\ fb_main = Pending
    /\ fb_solve = Pending

\* the variables of the suggestor, in the specifications without a suggestor
SuggestorIdle ==
    /\ word_bank = <<>>
    /\ word_clues = <<>>
    /\ call_binary = "none"
    /\ call_ranker = "none"
    /\ possible_solutions = <<>>
    /\ tasks = <<>>
    /\ suggestion = Pending
    /\ rank_calls = 0

\* the variables of Clues::from_str, in the specifications that do not run it alone
FromStrIdle ==
    /\ code = <<>>
    /\ parsed = Pending

\* the variables of WordProcessor::new, in the specifications that do not run
\* it alone
WordProcessorIdle ==
    /\ overflow_checks = FALSE
    /\ wp_word = <<>>
    /\ wp_idx = 0
    /\ wp_map = <<>>

\* the variables of the Bitmask run alone, in the other specifications
BitmaskIdle ==
    /\ bm_self = Bitmask_new
    /\ bm_other = Bitmask_new
    /\ bm_last = <<>>
    /\ bm_out = Pending

\* the variables of the sudoku grid indexes, in the other specifications
GridIdle ==
    /\ gr_idx = <<>>
    /\ gr_into = Pending
    /\ gr_cells = Pending

\* the variables of Puzzle::from_str, in the other specifications
PuzzleStrIdle ==
    /\ pz_lines = <<>>
    /\ pz_result = Pending

\* the variable of the play loop, in the other specifications
PlayIdle == play_solution = <<>>

\* the variables of Solver::solve, in the other specifications
SolverIdle ==
    /\ puzzle = <<>>
    /\ change = FALSE
    /\ sv_initial = <<>>
    /\ sv_productive = 0
    /\ sv_assignments = <<>>

ExtIdle ==
    /\ WordProcessorIdle
    /\ BitmaskIdle
    /\ GridIdle
    /\ PuzzleStrIdle
    /\ PlayIdle
    /\ SolverIdle
    /\ SolverIdle

\* ------------------------------------------- specification of from_solution

FeedbackInit ==
    /\ pc = "from_solution"
    /\ fb_word \in FeedbackWords
    /\ fb_solution \in FeedbackWords
    /\ fb_entries = Chars(fb_word)
    /\ fb_map = <<>>
    /\ fb_main = Pending
    /\ fb_solve = Pending
    /\ SuggestorIdle
    /\ FromStrIdle
    /\ ExtIdle

\* main.rs: the HashMap iterator yields one more entry, in any order
MainEntry(key) ==
    /\ pc = "from_solution"
    /\ key \in fb_entries
    /\ fb_map' = Main_entry(fb_map, key, WordProcessor_new(fb_word).map[key],
                            WordProcessor_new(fb_solution))
    /\ fb_entries' = fb_entries \ {key}
    /\ UNCHANGED <<pc, fb_word, fb_solution, fb_main, fb_solve, sg_vars, str_vars, ext_vars>>

\* main.rs: the entries are exhausted; the colours are collected and returned
MainCollect ==
    /\ pc = "from_solution"
    /\ fb_entries = {}
    /\ fb_main' = WordClues(Main_colors(fb_map), fb_word)
    /\ pc' = "main_returned"
    /\ UNCHANGED <<fb_word, fb_solution, fb_entries, fb_map, fb_solve, sg_vars, str_vars,
                   ext_vars>>

\* solve.rs: from_solution on the same two words
SolveFromSolution ==
    /\ pc = "main_returned"
    /\ fb_solve' = Solve_from_solution(WordProcessor_new(fb_word),
                                       WordProcessor_new(fb_solution))
    /\ pc' = "returned"
    /\ UNCHANGED <<fb_word, fb_solution, fb_entries, fb_map, fb_main, sg_vars, str_vars,
                   ext_vars>>

FeedbackNext ==
    \/ \E key \in Chars(fb_word) : MainEntry(key)
    \/ MainCollect
    \/ SolveFromSolution

SpecFeedback == FeedbackInit /\ [][FeedbackNext]_vars

\* ------------------------------------------ specification of Clues::from_str

FromStrInit ==
    /\ pc = "from_str"
    /\ code \in Codes
    /\ parsed = Pending
    /\ FeedbackIdle
    /\ SuggestorIdle
    /\ ExtIdle

\* code.parse::<Clues>()
FromStr ==
    /\ pc = "from_str"
    /\ parsed' = Clues_from_str(code)
    /\ pc' = "parsed"
    /\ UNCHANGED <<code, fb_vars, sg_vars, ext_vars>>

FromStrNext == FromStr

SpecFromStr == FromStrInit /\ [][FromStrNext]_vars

\* ------------------- specification of from_solution and of Clues::from_str
\* Either a feedback is computed or a code is parsed: the two places where a
\* Clues value is made.

ColorsInit == FeedbackInit \/ FromStrInit

ColorsNext == FeedbackNext \/ FromStrNext

SpecColors == ColorsInit /\ [][ColorsNext]_vars

\* ------------------------------------------ specification of WordSuggestor

Init ==
    /\ pc = "idle"
    /\ word_bank \in Banks
    /\ word_clues = <<>>
    /\ call_binary = "none"
    /\ call_ranker = "none"
    /\ possible_solutions = <<>>
    /\ tasks = <<>>
    /\ suggestion = Pending
    /\ rank_calls = 0
    /\ FeedbackIdle
    /\ FromStrIdle
    /\ ExtIdle

\* main(): a line of clues.txt is parsed and the clue is added; nothing of an
\* earlier suggest_word call is left
add_clue(line) ==
    /\ pc = "idle"
    /\ Len(word_clues) < MaxClues
    /\ LET clues == Clues_from_str(line[2])
       IN  /\ ~Panicked(clues)
           /\ word_clues' = Vec_push(word_clues,
                                    WordClues_from_clues(line[1], clues.ok))
    /\ call_binary' = "none"
    /\ call_ranker' = "none"
    /\ possible_solutions' = <<>>
    /\ tasks' = <<>>
    /\ suggestion' = Pending
    /\ rank_calls' = 0
    /\ UNCHANGED <<pc, word_bank, fb_vars, str_vars, ext_vars>>

\* suggest_word(ranker, ..) of a binary up to max_by_key, the same text in
\* main.rs and solve.rs: it returns with at most one possible solution, and
\* else max_by_key starts with one piece per entry, at the position at
\* (max_by_key of no entry is None, and unwrap panics)
suggest_start(name, r, at) ==
    /\ pc = "idle"
    /\ call_binary' = name
    /\ call_ranker' = r
    /\ rank_calls' = 0
    /\ LET filtered == suggest_possible_solutions(name, word_bank, word_clues)
           items == suggest_items(word_bank, filtered.kept)
       IN  IF Panicked(filtered)
           THEN /\ possible_solutions' = <<>>
                /\ suggestion' = filtered
                /\ tasks' = <<>>
                /\ pc' = "idle"
           ELSE /\ possible_solutions' = filtered.kept
                /\ IF no_solution(filtered.kept)
                   THEN suggestion' = [returned |-> <<>>] /\ tasks' = <<>> /\ pc' = "idle"
                   ELSE IF single_solution(filtered.kept)
                   THEN /\ suggestion' = [returned |-> filtered.kept[1]]
                        /\ tasks' = <<>>
                        /\ pc' = "idle"
                   ELSE IF items = <<>>
                   THEN /\ suggestion' =
                               PanicWith("called Option::unwrap() on a None value")
                        /\ tasks' = <<>>
                        /\ pc' = "idle"
                   ELSE /\ suggestion' = Pending
                        /\ tasks' = [i \in 1..Len(items) |->
                                         [lo |-> i, hi |-> i, scored |-> FALSE,
                                          key |-> 0, item |-> items[i]]]
                        /\ pc' = at
    /\ UNCHANGED <<word_bank, word_clues, fb_vars, str_vars, ext_vars>>

\* main.rs: suggest_word(ranker) up to iter().max_by_key(..)
Main_suggest(r) == suggest_start("main", r, "iter_max_by_key")

\* main.rs: max_by_key calls the closure on the next entry of the bank, in
\* bank order; a panic of rank is the panic of the call
Main_rank ==
    /\ pc = "iter_max_by_key"
    /\ \E j \in 1..Len(tasks) :
           /\ ~tasks[j].scored
           /\ \A i \in 1..(j - 1) : tasks[i].scored
           /\ LET key == Ranker_rank("main", call_ranker, possible_solutions,
                                     word_bank[tasks[j].item])
              IN  IF Panicked(key)
                  THEN suggestion' = key /\ tasks' = <<>> /\ pc' = "idle"
                  ELSE /\ tasks' = [tasks EXCEPT ![j] = [@ EXCEPT !.scored = TRUE,
                                                                  !.key = key.rank]]
                       /\ UNCHANGED <<suggestion, pc>>
    /\ rank_calls' = rank_calls + 1
    /\ UNCHANGED <<word_bank, word_clues, call_binary, call_ranker, possible_solutions,
                   fb_vars, str_vars, ext_vars>>

\* main.rs: the entries are exhausted; max_by_key has folded them left to
\* right and the suggestion is returned
Main_return ==
    /\ pc = "iter_max_by_key"
    /\ \A j \in 1..Len(tasks) : tasks[j].scored
    /\ suggestion' = [returned |-> word_bank[iter_max_by_key(tasks, 2, tasks[1]).item]]
    /\ tasks' = <<>>
    /\ pc' = "idle"
    /\ UNCHANGED <<word_bank, word_clues, call_binary, call_ranker, possible_solutions,
                   rank_calls, fb_vars, str_vars, ext_vars>>

\* solve.rs: suggest_word(ranker, ..) up to par_iter().max_by_key(..)
Solve_suggest(r) == suggest_start("solve", r, "max_by_key")

\* solve.rs: one task of the parallel map: the key of one entry; a panic of a
\* task is the panic of the call
Solve_rank(j) ==
    /\ pc = "max_by_key"
    /\ j \in 1..Len(tasks)
    /\ ~tasks[j].scored
    /\ LET key == Ranker_rank("solve", call_ranker, possible_solutions,
                              word_bank[tasks[j].item])
       IN  IF Panicked(key)
           THEN suggestion' = key /\ tasks' = <<>> /\ pc' = "idle"
           ELSE /\ tasks' = [tasks EXCEPT ![j] = [@ EXCEPT !.scored = TRUE,
                                                           !.key = key.rank]]
                /\ UNCHANGED <<suggestion, pc>>
    /\ rank_calls' = rank_calls + 1
    /\ UNCHANGED <<word_bank, word_clues, call_binary, call_ranker, possible_solutions,
                   fb_vars, str_vars, ext_vars>>

\* solve.rs: one step of the reduction: two adjacent pieces, both done, become
\* one piece holding max_key of the two, the left piece first
Solve_reduce(j) ==
    /\ pc = "max_by_key"
    /\ j \in 1..(Len(tasks) - 1)
    /\ tasks[j].scored
    /\ tasks[j + 1].scored
    /\ LET kept == max_key(tasks[j], tasks[j + 1])
       IN  tasks' = SubSeq(tasks, 1, j - 1)
                        \o <<[lo |-> tasks[j].lo, hi |-> tasks[j + 1].hi,
                              scored |-> TRUE, key |-> kept.key, item |-> kept.item]>>
                        \o SubSeq(tasks, j + 2, Len(tasks))
    /\ UNCHANGED <<pc, word_bank, word_clues, call_binary, call_ranker, possible_solutions,
                   suggestion, rank_calls, fb_vars, str_vars, ext_vars>>

\* solve.rs: the reduction is over; suggestion.word.to_owned() is returned
Solve_return ==
    /\ pc = "max_by_key"
    /\ Len(tasks) = 1
    /\ tasks[1].scored
    /\ suggestion' = [returned |-> word_bank[tasks[1].item]]
    /\ tasks' = <<>>
    /\ pc' = "idle"
    /\ UNCHANGED <<word_bank, word_clues, call_binary, call_ranker, possible_solutions,
                   rank_calls, fb_vars, str_vars, ext_vars>>

Next ==
    \/ \E line \in ClueLines : add_clue(line)
    \/ \E r \in Rankers : Main_suggest(r)
    \/ Main_rank
    \/ Main_return
    \/ \E r \in Rankers : Solve_suggest(r)
    \/ \E j \in 1..MaxBank + 1 : Solve_rank(j)
    \/ \E j \in 1..MaxBank + 1 : Solve_reduce(j)
    \/ Solve_return

Spec == Init /\ [][Next]_vars

\* ------------------------------------------- specification of the play loop
\* A client plays against a solution of the word bank: it calls suggest_word
\* of one of the binaries with one of the rankers, adds the clue made of the
\* word suggested and its feedback against the solution, and calls again,
\* while the call found two candidates or more.

PlayInit ==
    /\ pc = "idle"
    /\ word_bank \in Banks
    /\ play_solution \in {word_bank[i] : i \in 1..Len(word_bank)}
    /\ word_clues = <<>>
    /\ call_binary = "none"
    /\ call_ranker = "none"
    /\ possible_solutions = <<>>
    /\ tasks = <<>>
    /\ suggestion = Pending
    /\ rank_calls = 0
    /\ FeedbackIdle
    /\ FromStrIdle
    /\ WordProcessorIdle
    /\ BitmaskIdle
    /\ GridIdle
    /\ PuzzleStrIdle
    /\ SolverIdle

\* the next round calls suggest_word of main.rs
Play_main_suggest(r) == call_binary = "none" /\ Main_suggest(r)

\* the next round calls suggest_word of solve.rs
Play_solve_suggest(r) == call_binary = "none" /\ Solve_suggest(r)

\* add_clue(WordClues::from_clues(suggestion, feedback)), the feedback that of
\* the suggestion against the solution; the loop is cut after MaxBank + 1 rounds
Play_add_clue ==
    /\ pc = "idle"
    /\ "returned" \in DOMAIN suggestion
    /\ Len(possible_solutions) >= 2
    /\ Len(word_clues) <= MaxBank
    /\ LET feedback == from_solution(call_binary, suggestion.returned, play_solution)
       IN  word_clues' = Vec_push(word_clues,
                                  WordClues_from_clues(suggestion.returned,
                                                       feedback.clues))
    /\ call_binary' = "none"
    /\ call_ranker' = "none"
    /\ possible_solutions' = <<>>
    /\ tasks' = <<>>
    /\ suggestion' = Pending
    /\ rank_calls' = 0
    /\ UNCHANGED <<pc, word_bank, fb_vars, str_vars, ext_vars>>

PlayNext ==
    \/ \E r \in Rankers : Play_main_suggest(r)
    \/ Main_rank
    \/ Main_return
    \/ \E r \in Rankers : Play_solve_suggest(r)
    \/ \E j \in 1..MaxBank + 1 : Solve_rank(j)
    \/ \E j \in 1..MaxBank + 1 : Solve_reduce(j)
    \/ Solve_return
    \/ Play_add_clue

\* the client and the calls go on while a step is possible
SpecPlay == PlayInit /\ [][PlayNext]_vars /\ WF_vars(PlayNext)

\* --------------------------------------- specification of WordProcessor::new
\* The word is enumerated one character a step. The words are the words of
\* tests::test_colors and, for every length up to MaxWord, the words that
\* repeat the first one, two or three letters of Letters.

PatternWord(n, period) == [i \in 1..n |-> Letters[((i - 1) % period) + 1]]

ProcessorWords ==
    TestWords \cup {PatternWord(n, period) : n \in 0..MaxWord, period \in 1..3}

ProcessorInit ==
    /\ pc = "new"
    /\ overflow_checks \in BOOLEAN
    /\ wp_word \in ProcessorWords
    /\ wp_idx = 0
    /\ wp_map = <<>>
    /\ FeedbackIdle
    /\ SuggestorIdle
    /\ FromStrIdle
    /\ BitmaskIdle
    /\ GridIdle
    /\ PuzzleStrIdle
    /\ PlayIdle
    /\ SolverIdle

\* the closure of for_each on the next (idx, c); 1 << idx overflows from the
\* width on, which panics in a build with overflow checks
WordProcessor_for_each ==
    /\ pc = "new"
    /\ wp_idx < Len(wp_word)
    /\ IF overflow_checks /\ Shl_overflows(wp_idx)
       THEN /\ wp_map' = PanicWith("attempt to shift left with overflow")
            /\ pc' = "new_panicked"
            /\ UNCHANGED wp_idx
       ELSE /\ wp_map' = WordProcessor_entry(wp_map, wp_word[wp_idx + 1], wp_idx)
            /\ wp_idx' = wp_idx + 1
            /\ UNCHANGED pc
    /\ UNCHANGED <<overflow_checks, wp_word, fb_vars, sg_vars, str_vars, bm_vars, gr_vars, pz_vars,
                   play_solution, sv_vars>>

\* the characters are exhausted: WordProcessor { map }
WordProcessor_return ==
    /\ pc = "new"
    /\ wp_idx = Len(wp_word)
    /\ pc' = "new_returned"
    /\ UNCHANGED <<wp_vars, fb_vars, sg_vars, str_vars, bm_vars, gr_vars, pz_vars,
                   play_solution, sv_vars>>

ProcessorNext ==
    \/ WordProcessor_for_each
    \/ WordProcessor_return

SpecProcessor == ProcessorInit /\ [][ProcessorNext]_vars

\* ------------------------------------------------- specification of Bitmask
\* Two masks are built by any sequence of add and remove, and read by values,
\* intersection and symmetric_difference, as tests::bitmask does.

BitPositions == 0..MaxPos \cup {BitWidth - 1}

BitmaskInit ==
    /\ pc = "bitmask"
    /\ bm_self = Bitmask_new
    /\ bm_other = Bitmask_new
    /\ bm_last = [p \in BitPositions |-> "none"]
    /\ bm_out = Pending
    /\ FeedbackIdle
    /\ SuggestorIdle
    /\ FromStrIdle
    /\ WordProcessorIdle
    /\ GridIdle
    /\ PuzzleStrIdle
    /\ PlayIdle
    /\ SolverIdle

\* bm_self.add(value)
Self_add(value) ==
    /\ bm_self' = Bitmask_add(bm_self, value)
    /\ bm_last' = [bm_last EXCEPT ![value] = "add"]
    /\ bm_out' = Pending
    /\ pc' = "bitmask"
    /\ UNCHANGED <<bm_other, fb_vars, sg_vars, str_vars, wp_vars, gr_vars, pz_vars,
                   play_solution, sv_vars>>

\* bm_self.remove(value)
Self_remove(value) ==
    /\ bm_self' = Bitmask_remove(bm_self, value)
    /\ bm_last' = [bm_last EXCEPT ![value] = "remove"]
    /\ bm_out' = Pending
    /\ pc' = "bitmask"
    /\ UNCHANGED <<bm_other, fb_vars, sg_vars, str_vars, wp_vars, gr_vars, pz_vars,
                   play_solution, sv_vars>>

\* bm_other.add(value)
Other_add(value) ==
    /\ bm_other' = Bitmask_add(bm_other, value)
    /\ bm_out' = Pending
    /\ pc' = "bitmask"
    /\ UNCHANGED <<bm_self, bm_last, fb_vars, sg_vars, str_vars, wp_vars, gr_vars, pz_vars,
                   play_solution, sv_vars>>

\* bm_other.remove(value)
Other_remove(value) ==
    /\ bm_other' = Bitmask_remove(bm_other, value)
    /\ bm_out' = Pending
    /\ pc' = "bitmask"
    /\ UNCHANGED <<bm_self, bm_last, fb_vars, sg_vars, str_vars, wp_vars, gr_vars, pz_vars,
                   play_solution, sv_vars>>

\* bm_self.values().collect(), bm_self.intersection(&bm_other),
\* bm_self.symmetric_difference(&bm_other)
Bitmask_read ==
    /\ pc = "bitmask"
    /\ bm_out' = [values |-> Bitmask_values(bm_self),
                  intersection |-> Bitmask_intersection(bm_self, bm_other),
                  symmetric_difference |->
                      Bitmask_symmetric_difference(bm_self, bm_other)]
    /\ pc' = "bitmask_read"
    /\ UNCHANGED <<bm_self, bm_other, bm_last, fb_vars, sg_vars, str_vars, wp_vars, gr_vars, pz_vars,
                   play_solution, sv_vars>>

BitmaskNext ==
    \/ \E value \in BitPositions : Self_add(value)
    \/ \E value \in BitPositions : Self_remove(value)
    \/ \E value \in BitPositions : Other_add(value)
    \/ \E value \in BitPositions : Other_remove(value)
    \/ Bitmask_read

SpecBitmask == BitmaskInit /\ [][BitmaskNext]_vars

\* ------------------------------------- specification of the sudoku indexes
\* A cell of the grid is converted into its row, column and subgrid index,
\* and cells() is called on the three of them.

GridInit ==
    /\ pc = "cell"
    /\ gr_idx \in {CellIndex_new(x, y) : x \in 0..(GridSize - 1), y \in 0..(GridSize - 1)}
    /\ gr_into = Pending
    /\ gr_cells = Pending
    /\ FeedbackIdle
    /\ SuggestorIdle
    /\ FromStrIdle
    /\ WordProcessorIdle
    /\ BitmaskIdle
    /\ PuzzleStrIdle
    /\ PlayIdle
    /\ SolverIdle

\* Cell::row, Cell::col, Cell::subgrid: self.idx.clone().into()
Cell_into ==
    /\ pc = "cell"
    /\ gr_into' = [row |-> CellIndex_into_RowIndex(gr_idx),
                   col |-> CellIndex_into_ColumnIndex(gr_idx),
                   subgrid |-> CellIndex_into_SubgridIndex(gr_idx)]
    /\ pc' = "sections"
    /\ UNCHANGED <<gr_idx, gr_cells, fb_vars, sg_vars, str_vars, wp_vars, bm_vars, pz_vars,
                   play_solution, sv_vars>>

\* Section::cells: self.idx.cells() of the three sections, taken from
\* get_rows, get_cols and get_subgrids
Section_cells ==
    /\ pc = "sections"
    /\ gr_cells' = [row |-> RowIndex_cells(Puzzle_get_rows[gr_into.row + 1]),
                    col |-> ColumnIndex_cells(Puzzle_get_cols[gr_into.col + 1]),
                    subgrid |->
                        SubgridIndex_cells(Puzzle_get_subgrids[gr_into.subgrid + 1])]
    /\ pc' = "cells"
    /\ UNCHANGED <<gr_idx, gr_into, fb_vars, sg_vars, str_vars, wp_vars, bm_vars, pz_vars,
                   play_solution, sv_vars>>

GridNext ==
    \/ Cell_into
    \/ Section_cells

SpecGrid == GridInit /\ [][GridNext]_vars

\* --------------------------------------- specification of Puzzle::from_str
\* The input has up to MaxLines lines: line y of a solved grid, but for at
\* most two lines, which are short by one character, empty, long by one
\* character or all dashes.

\* the solved grid with the value (3 * (y % 3) + y / 3 + x) % 9 + 1 at (x, y)
SolvedValue(x, y) == ((BlockSize * (y % BlockSize) + y \div BlockSize + x) % GridSize) + 1

SolvedLine(y) == [i \in 1..GridSize |-> Digits[SolvedValue(i - 1, (y - 1) % GridSize)]]

LineKinds == {"whole", "short", "empty", "long", "dashes"}

InputLine(y, kind) ==
    CASE kind = "whole" -> SolvedLine(y)
      [] kind = "short" -> SubSeq(SolvedLine(y), 1, GridSize - 1)
      [] kind = "empty" -> <<>>
      [] kind = "long" -> SolvedLine(y) \o <<"x">>
      [] kind = "dashes" -> [i \in 1..GridSize |-> "-"]

PuzzleInputs ==
    {[y \in 1..n |-> InputLine(y, IF y = i THEN k1 ELSE IF y = j THEN k2 ELSE "whole")] :
        n \in 0..MaxLines, i \in 1..MaxLines, j \in 1..MaxLines,
        k1 \in LineKinds, k2 \in LineKinds}

PuzzleStrInit ==
    /\ pc = "puzzle_from_str"
    /\ pz_lines \in PuzzleInputs
    /\ pz_result = Pending
    /\ FeedbackIdle
    /\ SuggestorIdle
    /\ FromStrIdle
    /\ WordProcessorIdle
    /\ BitmaskIdle
    /\ GridIdle
    /\ PlayIdle
    /\ SolverIdle

\* s.parse::<Puzzle>()
PuzzleFromStr ==
    /\ pc = "puzzle_from_str"
    /\ pz_result' = Puzzle_from_str(pz_lines)
    /\ pc' = "puzzle_parsed"
    /\ UNCHANGED <<pz_lines, fb_vars, sg_vars, str_vars, wp_vars, bm_vars, gr_vars,
                   play_solution, sv_vars>>

PuzzleStrNext == PuzzleFromStr

SpecPuzzleStr == PuzzleStrInit /\ [][PuzzleStrNext]_vars

\* ----------------------------------------- specification of Solver::solve
\* solve is run on puzzles parsed by Puzzle::from_str: a puzzle made of a
\* solved grid with 47 cells EMPTY, a puzzle without a solution in which no
\* value is repeated, and each of the two with one more cell EMPTY.

\* the solved grid of SolvedValue
SolvedGrid ==
    [y \in 1..GridSize |-> [x \in 1..GridSize |-> SolvedValue(x - 1, y - 1)]]

\* cells of the solved grid, which solve fills in fourteen iterations but for six
HardPuzzle ==
    Puzzle_from_str(<<
        <<"-", "-", "3", "-", "-", "6", "-", "-", "-">>,
        <<"4", "5", "-", "-", "8", "9", "1", "2", "-">>,
        <<"7", "8", "-", "1", "-", "-", "-", "-", "-">>,
        <<"-", "-", "-", "5", "-", "-", "8", "-", "-">>,
        <<"5", "-", "7", "8", "-", "-", "-", "3", "4">>,
        <<"8", "9", "-", "2", "3", "-", "-", "-", "-">>,
        <<"-", "-", "-", "6", "-", "-", "-", "-", "-">>,
        <<"6", "7", "8", "-", "1", "2", "-", "4", "-">>,
        <<"9", "-", "2", "3", "-", "-", "6", "7", "-">> >>).ok

\* no value is repeated, and the last two cells of the first row can both
\* take 9 alone
BlockedPuzzle ==
    Puzzle_from_str(<<
        <<"1", "2", "3", "4", "5", "6", "7", "-", "-">>,
        <<"-", "-", "-", "-", "-", "-", "-", "-", "-">>,
        <<"-", "-", "-", "-", "-", "-", "-", "-", "-">>,
        <<"-", "-", "-", "-", "-", "-", "-", "8", "-">>,
        <<"-", "-", "-", "-", "-", "-", "-", "-", "-">>,
        <<"-", "-", "-", "-", "-", "-", "-", "-", "-">>,
        <<"-", "-", "-", "-", "-", "-", "-", "-", "8">>,
        <<"-", "-", "-", "-", "-", "-", "-", "-", "-">>,
        <<"-", "-", "-", "-", "-", "-", "-", "-", "-">> >>).ok

BasePuzzles == {HardPuzzle, BlockedPuzzle}

\* the puzzle with the cell of a flat index EMPTY
Erased(p, flat) ==
    [y \in 1..GridSize |-> [x \in 1..GridSize |->
        IF (x - 1) + (y - 1) * GridSize = flat THEN EMPTY ELSE p[y][x]]]

SolverPuzzles ==
    BasePuzzles \cup {Erased(p, flat) : p \in BasePuzzles, flat \in 0..(MaxErased - 1)}

\* Solver::from(puzzle), and let mut change = true
SolverInit ==
    /\ pc = "solve"
    /\ puzzle \in SolverPuzzles
    /\ change = TRUE
    /\ sv_initial = puzzle
    /\ sv_productive = 0
    /\ sv_assignments = <<>>
    /\ FeedbackIdle
    /\ SuggestorIdle
    /\ FromStrIdle
    /\ WordProcessorIdle
    /\ BitmaskIdle
    /\ GridIdle
    /\ PuzzleStrIdle
    /\ PlayIdle

\* while change { change = false; let assignments = .. }: the assignments of
\* last_possible and of last_remaining, computed on the same puzzle
Solver_assignments ==
    /\ pc = "solve"
    /\ change
    /\ sv_assignments' = last_possible(puzzle) \o last_remaining(puzzle)
    /\ pc' = "set_cells"
    /\ UNCHANGED <<puzzle, change, sv_initial, sv_productive, fb_vars, sg_vars, str_vars,
                   wp_vars, bm_vars, gr_vars, pz_vars, play_solution>>

\* change |= assignments.len() != 0, and the assignments are set in order
Solver_set_assignments ==
    /\ pc = "set_cells"
    /\ change' = (Len(sv_assignments) # 0)
    /\ puzzle' = Solver_set_cells(puzzle, sv_assignments)
    /\ sv_productive' = sv_productive + (IF Len(sv_assignments) # 0 THEN 1 ELSE 0)
    /\ sv_assignments' = <<>>
    /\ pc' = "solve"
    /\ UNCHANGED <<sv_initial, fb_vars, sg_vars, str_vars, wp_vars, bm_vars, gr_vars,
                   pz_vars, play_solution>>

\* change is false: the loop ends and solve returns
Solver_return ==
    /\ pc = "solve"
    /\ ~change
    /\ pc' = "solved"
    /\ UNCHANGED <<sv_vars, fb_vars, sg_vars, str_vars, wp_vars, bm_vars, gr_vars,
                   pz_vars, play_solution>>

SolverNext ==
    \/ Solver_assignments
    \/ Solver_set_assignments
    \/ Solver_return

\* solve runs on: the body of the loop is entered while change holds, the
\* assignments computed are set, and solve returns once change is false
SpecSolver ==
    /\ SolverInit
    /\ [][SolverNext]_vars
    /\ WF_pc(pc = "solve" /\ change /\ pc' = "set_cells")
    /\ WF_vars(Solver_set_assignments)
    /\ WF_vars(Solver_return)

\* --------------------------------------------------- claims on from_solution

\* the number of occurrences of the letter c in a word
Count(word, c) == Cardinality({i \in 1..Len(word) : word[i] = c})

\* the positions (1-based) where guess and solution both hold c
ExactMatches(guess, solution, c) ==
    {i \in 1..Min(Len(guess), Len(solution)) : guess[i] = c /\ solution[i] = c}

\* the occurrences of c in the solution that no exact match consumes
Unmatched(guess, solution, c) ==
    Count(solution, c) - Cardinality(ExactMatches(guess, solution, c))

\* the canonical Wordle colour of position i (1-based): green on an exact match;
\* else yellow while the non-green occurrences of the letter to the left have not
\* used up the unmatched occurrences of the solution; else black
CanonicalColor(guess, solution, i) ==
    IF guess[i] = solution[i] THEN "GREEN"
    ELSE IF Cardinality({j \in 1..(i - 1) :
                            guess[j] = guess[i] /\ guess[j] # solution[j]})
                < Unmatched(guess, solution, guess[i])
    THEN "YELLOW"
    ELSE "BLACK"

Canonical(guess, solution) ==
    [i \in 1..WordLen |-> CanonicalColor(guess, solution, i)]

MainReturned == ~IsPending(fb_main)

SolveReturned == ~IsPending(fb_solve)

\* the positions (1-based) of the guess holding c that clues colours with color
Colored(clues, guess, c, color) ==
    {i \in 1..WordLen : guess[i] = c /\ clues[i] = color}

\* C1: for 5-letter guess and solution, from_solution of main.rs returns the
\* canonical Wordle feedback whatever the order in which the letter map is
\* iterated (the fold in first-occurrence order included), and the four feedbacks
\* of the claim are as stated.
C1_CanonicalFeedback ==
    MainReturned =>
        /\ ~Panicked(fb_main)
        /\ fb_main.clues = Canonical(fb_word, fb_solution)
        /\ fb_main = Main_from_solution(fb_word, fb_solution)
        /\ (fb_word = forze /\ fb_solution = forge) =>
               fb_main.clues = <<"GREEN", "GREEN", "GREEN", "BLACK", "GREEN">>
        /\ (fb_word = soare /\ fb_solution = forge) =>
               fb_main.clues = <<"BLACK", "GREEN", "BLACK", "YELLOW", "GREEN">>
        /\ (fb_word = blech /\ fb_solution = delve) =>
               fb_main.clues = <<"BLACK", "YELLOW", "YELLOW", "BLACK", "BLACK">>
        /\ (fb_word = begem /\ fb_solution = delve) =>
               fb_main.clues = <<"BLACK", "GREEN", "BLACK", "YELLOW", "BLACK">>

\* begem against delve has been computed by main.rs
C1_Witness ==
    /\ MainReturned
    /\ fb_word = begem
    /\ fb_solution = delve
    /\ fb_main.clues = <<"BLACK", "GREEN", "BLACK", "YELLOW", "BLACK">>

\* position i of clues is GREEN iff guess and solution agree there
GreenIffEqual(clues, guess, solution) ==
    \A i \in 1..WordLen : (clues[i] = "GREEN") <=> (guess[i] = solution[i])

\* C2: at every position, the feedback of from_solution (main.rs and solve.rs)
\* is GREEN if and only if guess and solution hold the same letter there.
C2_GreenIffExactMatch ==
    /\ MainReturned =>
           ~Panicked(fb_main) /\ GreenIffEqual(fb_main.clues, fb_word, fb_solution)
    /\ SolveReturned =>
           ~Panicked(fb_solve) /\ GreenIffEqual(fb_solve.clues, fb_word, fb_solution)

\* both implementations have returned a feedback with a green and, for a letter
\* the solution holds elsewhere, a position that is not green
C2_Witness ==
    /\ MainReturned
    /\ SolveReturned
    /\ \E i, j \in 1..WordLen :
           /\ fb_word[i] = fb_solution[i]
           /\ fb_word[j] # fb_solution[j]
           /\ fb_word[j] \in Chars(fb_solution)
           /\ fb_main.clues[i] = "GREEN" /\ fb_main.clues[j] # "GREEN"
           /\ fb_solve.clues[i] = "GREEN" /\ fb_solve.clues[j] # "GREEN"

\* for every letter, the yellows of the letter are at most the unmatched
\* occurrences of the solution (hence none when there are none)
YellowsBounded(clues, guess, solution) ==
    \A c \in Chars(guess) :
        LET unmatched == Unmatched(guess, solution, c)
        IN  Cardinality(Colored(clues, guess, c, "YELLOW"))
                <= (IF unmatched > 0 THEN unmatched ELSE 0)

\* C3: for every letter c, from_solution (main.rs and solve.rs) marks YELLOW at
\* most max(0, count of c in the solution - exact matches of c) positions of
\* the guess holding c; none when every occurrence in the solution is matched
\* by a GREEN.
C3_YellowsBounded ==
    /\ MainReturned =>
           ~Panicked(fb_main) /\ YellowsBounded(fb_main.clues, fb_word, fb_solution)
    /\ SolveReturned =>
           ~Panicked(fb_solve) /\ YellowsBounded(fb_solve.clues, fb_word, fb_solution)

\* both implementations have returned, and some letter has more non-green
\* occurrences in the guess than unmatched occurrences in the solution, of which
\* there is at least one: the bound is reached and it cuts
C3_Witness ==
    /\ MainReturned
    /\ SolveReturned
    /\ \E c \in Chars(fb_word) :
           LET unmatched == Unmatched(fb_word, fb_solution, c)
               nongreen == {i \in 1..WordLen :
                               fb_word[i] = c /\ fb_solution[i] # c}
           IN  /\ unmatched > 0
               /\ ExactMatches(fb_word, fb_solution, c) # {}
               /\ Cardinality(nongreen) > unmatched
               /\ Cardinality(Colored(fb_main.clues, fb_word, c, "YELLOW")) = unmatched
               /\ Cardinality(Colored(fb_solve.clues, fb_word, c, "YELLOW")) = unmatched

\* among the non-green positions of one letter, no BLACK is left of a YELLOW
YellowsLeftOfBlacks(clues, guess) ==
    \A i, j \in 1..WordLen :
        (guess[i] = guess[j] /\ clues[i] = "BLACK" /\ clues[j] = "YELLOW") => j < i

\* C4: when the guess holds a letter more often than the solution, the
\* occurrences marked BLACK are the excess ones in left-to-right order: among
\* the non-green positions of the letter, every YELLOW is left of every BLACK
\* (main.rs and solve.rs).
C4_ExcessBlackRightmost ==
    /\ MainReturned =>
           ~Panicked(fb_main) /\ YellowsLeftOfBlacks(fb_main.clues, fb_word)
    /\ SolveReturned =>
           ~Panicked(fb_solve) /\ YellowsLeftOfBlacks(fb_solve.clues, fb_word)

\* both implementations have returned a feedback where one letter of the guess
\* is YELLOW at one position and BLACK at a later one
C4_Witness ==
    /\ MainReturned
    /\ SolveReturned
    /\ \E i, j \in 1..WordLen :
           /\ i < j
           /\ fb_word[i] = fb_word[j]
           /\ fb_main.clues[i] = "YELLOW" /\ fb_main.clues[j] = "BLACK"
           /\ fb_solve.clues[i] = "YELLOW" /\ fb_solve.clues[j] = "BLACK"

\* C17: for every 5-letter word w, from_solution(w, w) (main.rs and solve.rs)
\* is GREEN at all five positions.
C17_SelfFeedbackAllGreen ==
    (fb_word = fb_solution) =>
        /\ MainReturned =>
               ~Panicked(fb_main) /\ fb_main.clues = [i \in 1..WordLen |-> "GREEN"]
        /\ SolveReturned =>
               ~Panicked(fb_solve) /\ fb_solve.clues = [i \in 1..WordLen |-> "GREEN"]

\* both implementations have returned five greens for a word, with a letter
\* that occurs twice or more, against itself
C17_Witness ==
    /\ MainReturned
    /\ SolveReturned
    /\ fb_word = fb_solution
    /\ Cardinality(Chars(fb_word)) < WordLen
    /\ fb_main.clues = <<"GREEN", "GREEN", "GREEN", "GREEN", "GREEN">>
    /\ fb_solve.clues = <<"GREEN", "GREEN", "GREEN", "GREEN", "GREEN">>

\* a Clues value: a colour of BLACK, YELLOW, GREEN at each of the 5 positions
NoGray(clues) ==
    /\ DOMAIN clues = 1..WordLen
    /\ \A i \in 1..WordLen : clues[i] \in Colors \ {"GRAY"}

\* C18: every feedback from_solution computes (main.rs and solve.rs) and every
\* Clues value Clues::from_str parses has, at each of the 5 positions, a
\* colour of BLACK, YELLOW, GREEN: GRAY never appears.
C18_NoGray ==
    /\ MainReturned => ~Panicked(fb_main) /\ NoGray(fb_main.clues)
    /\ SolveReturned => ~Panicked(fb_solve) /\ NoGray(fb_solve.clues)
    /\ (pc = "parsed" /\ ~Panicked(parsed)) => NoGray(parsed.ok)

\* Clues::from_str has parsed a code of 5 characters into the three colours
C18_Witness ==
    /\ pc = "parsed"
    /\ Len(code) = WordLen
    /\ ~Panicked(parsed)
    /\ {parsed.ok[i] : i \in 1..WordLen} = {"BLACK", "YELLOW", "GREEN"}

\* from_solution has computed, in both implementations, a feedback with the
\* three colours
C18_FeedbackWitness ==
    /\ MainReturned
    /\ SolveReturned
    /\ {fb_main.clues[i] : i \in 1..WordLen} = {"BLACK", "YELLOW", "GREEN"}
    /\ {fb_solve.clues[i] : i \in 1..WordLen} = {"BLACK", "YELLOW", "GREEN"}

\* ---------------------------------------------------- claims on suggest_word

\* a suggest_word call has started since the last add_clue
Called == call_binary \in Binaries

\* that call has returned a String
Returned == Called /\ "returned" \in DOMAIN suggestion

\* the word w gives, as a solution, the recorded feedback of every clue
ConsistentWithClues(w) ==
    \A k \in 1..Len(word_clues) :
        LET feedback == from_solution(call_binary, word_clues[k].word, w)
        IN  ~Panicked(feedback) /\ feedback.clues = word_clues[k].clues

\* the bank and the single clue of the end-to-end example:
\* [forge, forte, forze, soare] and (forte, feedback of forte against forge)
ExampleBankAndClue ==
    /\ word_bank = <<forge, forte, forze, soare>>
    /\ Len(word_clues) = 1
    /\ word_clues[1].word = forte
    /\ word_clues[1].clues = from_solution(call_binary, forte, forge).clues

\* C5: the candidate set of suggest_word (main.rs and solve.rs) is exactly the
\* words of the word bank, in word-bank order, that give the recorded feedback
\* of every clue; with no clue it is the whole bank; for the example bank and
\* clue it is [forge, forze].
C5_CandidateSet ==
    Called =>
        /\ ~Panicked(suggestion)
        /\ possible_solutions =
               Restrict(word_bank,
                        {i \in 1..Len(word_bank) : ConsistentWithClues(word_bank[i])})
        /\ (word_clues = <<>>) => (possible_solutions = word_bank)
        /\ ExampleBankAndClue => (possible_solutions = <<forge, forze>>)

\* a call on the example bank and clue has filtered the bank to forge and forze
C5_Witness ==
    /\ Called
    /\ ExampleBankAndClue
    /\ possible_solutions = <<forge, forze>>

\* a second witness of the filter: two clues, and a bank word that one clue
\* keeps and the other rejects
C5_TwoClues ==
    /\ Called
    /\ Len(word_clues) = 2
    /\ possible_solutions # <<>>
    /\ \E i \in 1..Len(word_bank) :
           /\ ~ConsistentWithClues(word_bank[i])
           /\ \E k \in 1..Len(word_clues) :
                  from_solution(call_binary, word_clues[k].word, word_bank[i]).clues
                      = word_clues[k].clues

\* the score of the bank entry i in the call: ranker.rank(&possible_solutions, word)
Score(i) ==
    Ranker_rank(call_binary, call_ranker, possible_solutions, word_bank[i]).rank

\* the greatest score among the bank entries lo..hi
MaxScore(lo, hi) == SetMax({Score(i) : i \in lo..hi})

\* the bank entries lo..hi whose score is the greatest of lo..hi
Maxima(lo, hi) == {i \in lo..hi : Score(i) = MaxScore(lo, hi)}

SetMin(S) == CHOOSE x \in S : \A y \in S : x <= y

\* the call has returned from max_by_key: there were two candidates or more
Suggested == Returned /\ Len(possible_solutions) >= 2

PiecesHoldLastMaximum ==
    \A j \in 1..Len(tasks) :
        tasks[j].scored =>
            /\ tasks[j].key = MaxScore(tasks[j].lo, tasks[j].hi)
            /\ tasks[j].item = SetMax(Maxima(tasks[j].lo, tasks[j].hi))

PiecesSpanBank ==
    /\ tasks # <<>>
    /\ tasks[1].lo = 1
    /\ tasks[Len(tasks)].hi = Len(word_bank)
    /\ \A j \in 1..Len(tasks) : tasks[j].lo <= tasks[j].hi
    /\ \A j \in 1..(Len(tasks) - 1) : tasks[j + 1].lo = tasks[j].hi + 1

\* C8: with two candidates or more, suggest_word (main.rs and solve.rs) scores
\* every entry of the whole word bank against the candidate set and returns a
\* bank entry whose score is the maximum over the whole bank, candidate or not.
C8_ScoresWholeBank ==
    /\ (pc = "max_by_key") => PiecesSpanBank
    /\ Suggested =>
           \E i \in 1..Len(word_bank) :
               /\ suggestion.returned = word_bank[i]
               /\ \A j \in 1..Len(word_bank) : Score(j) <= Score(i)

\* a suggestion has been returned that no clue allows as a solution: it is not
\* among the candidates, and it scores more than every candidate
C8_Witness ==
    /\ Suggested
    /\ \A k \in 1..Len(possible_solutions) : possible_solutions[k] # suggestion.returned
    /\ \E i \in 1..Len(word_bank) :
           /\ suggestion.returned = word_bank[i]
           /\ \A j \in 1..Len(word_bank) :
                  (\E k \in 1..Len(possible_solutions) :
                       possible_solutions[k] = word_bank[j]) => Score(j) < Score(i)

BadLengthClue ==
    \E k \in 1..Len(word_clues) : Len(word_clues[k].word) # WordLen

\* C11: a clue whose guess word has not exactly 5 letters is a hard input
\* error: it is never recorded and then used by a suggest_word call that filters
\* the bank with it and returns a suggestion (main.rs and solve.rs).
C11_LengthMismatchRejected ==
    (Called /\ BadLengthClue) => ~(Returned /\ suggestion.returned # <<>>)

\* the bank entries that give the recorded feedback of every clue
ConsistentEntries == {i \in 1..Len(word_bank) : ConsistentWithClues(word_bank[i])}

\* the call is over and has returned value without a call of ranker.rank
ReturnedUnranked(value) ==
    /\ pc = "idle"
    /\ suggestion = [returned |-> value]
    /\ rank_calls = 0
    /\ tasks = <<>>

\* C12: when the recorded clues are contradictory, no word of the bank being
\* consistent with all of them, suggest_word (main.rs and solve.rs) does not
\* panic and returns the empty string without a call of the ranker.
C12_ContradictionNoSolution ==
    (Called /\ ConsistentEntries = {}) => ReturnedUnranked(<<>>)

\* a call on a bank of two words or more, none of them consistent with the
\* clues, has returned the empty string
C12_Witness ==
    /\ Called
    /\ Len(word_bank) >= 2
    /\ word_clues # <<>>
    /\ ConsistentEntries = {}
    /\ ReturnedUnranked(<<>>)

\* C13: with an empty word bank every suggest_word call (main.rs and
\* solve.rs), whatever the clues and the ranker, returns the empty string and
\* does not panic.
C13_EmptyBankNoSolution ==
    (Called /\ word_bank = <<>>) =>
        /\ ~Panicked(suggestion)
        /\ pc = "idle"
        /\ suggestion = [returned |-> <<>>]

\* solve.rs, called with a clue and an empty bank, has returned the empty string
C13_Witness ==
    /\ call_binary = "solve"
    /\ word_bank = <<>>
    /\ word_clues # <<>>
    /\ suggestion = [returned |-> <<>>]

\* C14: whenever exactly one entry of the bank is a candidate, suggest_word
\* (main.rs and solve.rs) returns that entry and makes no call of the ranker.
C14_SingleCandidateUnranked ==
    Called =>
        \A i \in 1..Len(word_bank) :
            (ConsistentEntries = {i}) => ReturnedUnranked(word_bank[i])

\* a call on a bank of two words or more has returned the only candidate the
\* clues leave
C14_Witness ==
    /\ Called
    /\ Len(word_bank) >= 2
    /\ Cardinality(ConsistentEntries) = 1
    /\ \E i \in ConsistentEntries : ReturnedUnranked(word_bank[i])

\* the candidate set suggest_word of the binary computes from a list of clues
Candidates(binary, clue_list) ==
    suggest_possible_solutions(binary, word_bank, clue_list).kept

Range(seq) == {seq[i] : i \in 1..Len(seq)}

\* C15: adding one more clue never increases the candidate set: in every step,
\* an add_clue included, the candidate set of the clues recorded after the step
\* is a subset of, and no longer than, the one of the clues recorded before
\* (main.rs and solve.rs).
C15_AddClueMonotonic ==
    [][\A binary \in Binaries :
          /\ Range(Candidates(binary, word_clues')) \subseteq
                 Range(Candidates(binary, word_clues))
          /\ Len(Candidates(binary, word_clues')) <=
                 Len(Candidates(binary, word_clues))]_vars

\* two clues are recorded, and suggest_word has computed a candidate set that
\* is not empty and is smaller than the one the first clue alone gives
C15_Witness ==
    /\ Called
    /\ Len(word_clues) = 2
    /\ possible_solutions # <<>>
    /\ possible_solutions = Candidates(call_binary, word_clues)
    /\ Len(possible_solutions) < Len(Candidates(call_binary, SubSeq(word_clues, 1, 1)))

\* C16: candidate filtering is idempotent: the filter of suggest_word (main.rs
\* and solve.rs), applied with the recorded clues to the candidate set those
\* clues gave, yields the same sequence of words.
C16_FilterIdempotent ==
    Called =>
        LET again == suggest_possible_solutions(call_binary, possible_solutions,
                                                word_clues)
        IN  ~Panicked(again) /\ again.kept = possible_solutions

\* a call with a clue has kept some words of the bank and rejected others, and
\* filtering the kept words again keeps them all
C16_Witness ==
    /\ Called
    /\ word_clues # <<>>
    /\ possible_solutions # <<>>
    /\ Len(possible_solutions) < Len(word_bank)
    /\ suggest_possible_solutions(call_binary, possible_solutions, word_clues).kept
           = possible_solutions

\* the feedback of the guess against the candidate k of the call
Feedback(guess, k) == from_solution(call_binary, guess, possible_solutions[k]).clues

\* the candidates of the call that give the guess the feedback the candidate k
\* gives it
Group(guess, k) ==
    {j \in 1..Len(possible_solutions) : Feedback(guess, j) = Feedback(guess, k)}

\* C19: for every guess and every non-empty candidate list,
\* LargestUniqueValuesRanker::rank (main.rs and solve.rs) is at most the number
\* of candidates, and equals it if and only if every two candidates give the
\* guess different feedbacks.
C19_LargestUniqueBounded ==
    (Called /\ possible_solutions # <<>>) =>
        \A i \in 1..Len(word_bank) :
            LET guess == word_bank[i]
                n == Len(possible_solutions)
                rank == LargestUniqueValuesRanker_rank(call_binary,
                                                       possible_solutions, guess)
            IN  /\ ~Panicked(rank)
                /\ rank.rank <= n
                /\ (rank.rank = n) <=>
                       (\A a, b \in 1..n : (a # b) => Feedback(guess, a) # Feedback(guess, b))

\* suggest_word has ranked the bank with LargestUniqueValuesRanker against
\* three candidates or more: one guess tells them all apart, another does not
C19_Witness ==
    /\ Suggested
    /\ call_ranker = "LargestUniqueValuesRanker"
    /\ rank_calls > 0
    /\ Len(possible_solutions) >= 3
    /\ \E i, j \in 1..Len(word_bank) :
           /\ Score(i) = Len(possible_solutions)
           /\ Score(j) < Len(possible_solutions)

\* C20: for every guess and every candidate list of one entry or more,
\* LowestMaxBucketRanker::rank (main.rs and solve.rs) is the number of
\* candidates minus the size of the largest group of candidates that give the
\* guess one feedback, and so lies in 0..(number of candidates - 1): the
\* subtraction does not underflow.
C20_LowestMaxBucketBounded ==
    (Called /\ possible_solutions # <<>>) =>
        \A i \in 1..Len(word_bank) :
            LET guess == word_bank[i]
                n == Len(possible_solutions)
                largest == SetMax({Cardinality(Group(guess, k)) : k \in 1..n})
                rank == LowestMaxBucketRanker_rank(call_binary,
                                                   possible_solutions, guess)
            IN  /\ ~Panicked(rank)
                /\ rank.rank = n - largest
                /\ rank.rank \in 0..(n - 1)

\* suggest_word has ranked the bank with LowestMaxBucketRanker against three
\* candidates or more: for one guess the largest group has two candidates or
\* more and is not the whole list, and for another every group has one
C20_Witness ==
    /\ Suggested
    /\ call_ranker = "LowestMaxBucketRanker"
    /\ rank_calls > 0
    /\ Len(possible_solutions) >= 3
    /\ \E i, j \in 1..Len(word_bank) :
           /\ Score(i) = Len(possible_solutions) - 1
           /\ Score(j) > 0
           /\ Score(j) < Len(possible_solutions) - 1

\* ---------------------------------------------------- claims on Clues::from_str

\* a feedback code that is not exactly WordLen characters of b, y, g
Malformed(s) ==
    \/ Len(s) # WordLen
    \/ \E i \in 1..Len(s) : s[i] \notin {"b", "y", "g"}

\* C10: Clues::from_str rejects every malformed feedback code: a code whose
\* length is not exactly 5, or that holds a character other than b, y, g, never
\* yields a Clues value.
C10_MalformedRejected ==
    (pc = "parsed" /\ Malformed(code)) => Panicked(parsed)

\* ---------------------------------------------- claims on WordProcessor::new

\* the positions a mask yields
Members(mask) == {Bitmask_values(mask)[i] : i \in 1..Len(Bitmask_values(mask))}

\* the letter map partitions the positions of the word by letter
PartitionsPositions(map, word) ==
    /\ UNION {Members(map[c]) : c \in DOMAIN map} = 0..(Len(word) - 1)
    /\ \A p \in 0..(Len(word) - 1) :
           Cardinality({c \in DOMAIN map : Bitmask_has(map[c], p)}) = 1
    /\ \A p \in 0..(Len(word) - 1) : \A c \in DOMAIN map \cup Chars(word) :
           (c \in DOMAIN map /\ Bitmask_has(map[c], p)) <=> (word[p + 1] = c)

\* C21, as stated: for every word, WordProcessor::new returns a letter map
\* that partitions the positions 0..length-1 by letter.
C21_EveryWordPartitioned ==
    (pc \in {"new_returned", "new_panicked"})
        => /\ ~Panicked(wp_map)
           /\ PartitionsPositions(wp_map, wp_word)

\* C21, amended: for every word of at most 64 characters (the width of the
\* usize of a Bitmask), WordProcessor::new returns, and the letter map
\* partitions the positions 0..length-1 by letter: every position is in
\* exactly one letter's set, the set of the letter at that position.
C21_WordWithinWidthPartitioned ==
    (Len(wp_word) <= BitWidth)
        => /\ pc # "new_panicked"
           /\ (pc = "new_returned") => PartitionsPositions(wp_map, wp_word)

\* a map is returned for a word of 64 characters with repeated letters, and
\* for a word of tests::test_colors with a repeated letter
C21_Witness ==
    /\ pc = "new_returned"
    /\ wp_word \in {PatternWord(BitWidth, 2), mommy}
    /\ Cardinality(DOMAIN wp_map) < Len(wp_word)

\* ------------------------------------------------------- claims on Bitmask

\* the positions whose last operation on bm_self was an add
LastAdded == {p \in DOMAIN bm_last : bm_last[p] = "add"}

\* a sequence lists exactly the set S, in ascending order
AscendingOf(seq, S) ==
    /\ {seq[i] : i \in 1..Len(seq)} = S
    /\ \A i \in 1..(Len(seq) - 1) : seq[i] < seq[i + 1]

\* C22: after any sequence of add and remove, has(p) holds iff the last
\* operation on p was an add, for every position p of 0..63; values yields
\* the member positions in ascending order; intersection has p iff both masks
\* have p, and symmetric_difference has p iff exactly one of them has p.
C22_BitmaskIsASet ==
    /\ \A p \in 0..(BitWidth - 1) : Bitmask_has(bm_self, p) <=> p \in LastAdded
    /\ (pc = "bitmask_read") =>
           /\ AscendingOf(bm_out.values, LastAdded)
           /\ \A p \in 0..(BitWidth - 1) :
                  /\ Bitmask_has(bm_out.intersection, p)
                         <=> (Bitmask_has(bm_self, p) /\ Bitmask_has(bm_other, p))
                  /\ Bitmask_has(bm_out.symmetric_difference, p)
                         <=> (Bitmask_has(bm_self, p) # Bitmask_has(bm_other, p))

\* the masks are read when bm_self holds the first and the last position,
\* the last operation on position 1 was a remove, and the two masks overlap
\* without being equal
C22_Witness ==
    /\ pc = "bitmask_read"
    /\ bm_out.values = <<0, BitWidth - 1>>
    /\ bm_last[1] = "remove"
    /\ bm_out.intersection # Bitmask_new
    /\ bm_out.symmetric_difference # Bitmask_new

\* ------------------------------- claims on the recomputed candidate set

\* the words of the bank, in bank order, that give the recorded feedback of
\* every clue of a set of clues
CandidatesOfSet(binary, clue_set) ==
    Restrict(word_bank,
             {i \in 1..Len(word_bank) :
                 \A clue \in clue_set :
                     from_solution(binary, clue.word, word_bank[i]).clues = clue.clues})

\* the clue list in every order
Reorderings(clue_list) ==
    {[i \in 1..Len(clue_list) |-> clue_list[f[i]]] :
        f \in Permutations(1..Len(clue_list))}

\* C23: the candidate set of every suggest_word call (main.rs and solve.rs) is
\* computed from the word bank and the set of the clues added so far alone:
\* it is the same for every order of the clues and whatever an earlier call
\* computed; no step of a suggest_word call changes the word bank or the clue
\* list, and add_clue appends one clue and leaves the word bank alone.
C23_RecomputedFromScratch ==
    [][/\ (pc = "idle" /\ call_binary' \in Binaries) =>
              /\ possible_solutions' =
                     CandidatesOfSet(call_binary', Range(word_clues))
              /\ \A clue_list \in Reorderings(word_clues) :
                     Candidates(call_binary', clue_list) = possible_solutions'
       /\ (call_binary' \in Binaries) =>
              /\ word_bank' = word_bank
              /\ word_clues' = word_clues
       /\ (call_binary' \notin Binaries) =>
              /\ word_bank' = word_bank
              /\ Len(word_clues') = Len(word_clues) + 1
              /\ SubSeq(word_clues', 1, Len(word_clues)) = word_clues]_vars

\* suggest_word has computed a candidate set from two clues that each alone
\* leave a different candidate set, one of them a larger one
C23_Witness ==
    /\ Called
    /\ Len(word_clues) = 2
    /\ possible_solutions = Candidates(call_binary, Reverse(word_clues))
    /\ possible_solutions # <<>>
    /\ Candidates(call_binary, SubSeq(word_clues, 1, 1))
           # Candidates(call_binary, SubSeq(word_clues, 2, 2))
    /\ Len(possible_solutions) < Len(Candidates(call_binary, SubSeq(word_clues, 2, 2)))

\* --------------------------------------------- claims on the sudoku indexes

\* the cells of a list of cell indexes, as a set
CellSet(cells) == {cells[i] : i \in 1..Len(cells)}

\* the lists of a family of sections partition the 81 cells
PartitionsGrid(lists) ==
    /\ UNION {CellSet(lists[s]) : s \in DOMAIN lists} = CellSet(Puzzle_get_cells)
    /\ \A s \in DOMAIN lists : Cardinality(CellSet(lists[s])) = GridSize
    /\ \A s, t \in DOMAIN lists : (s # t) => (CellSet(lists[s]) \cap CellSet(lists[t]) = {})

\* C24: cells() of row r lists (x, r) for x = 0..8 in ascending x, cells() of
\* column c lists (c, y) for y = 0..8 in ascending y, cells() of subgrid s
\* lists the block of block-row s/3 and block-column s%3 row by row; each
\* family partitions the 81 cells; and the row, column and subgrid index a
\* cell converts into are those of the sections whose cells() contain it.
C24_SectionsOfTheGrid ==
    (pc = "cells") =>
        /\ \A i \in 1..GridSize :
               /\ gr_cells.row[i] = [x |-> i - 1, y |-> gr_into.row]
               /\ gr_cells.col[i] = [x |-> gr_into.col, y |-> i - 1]
               /\ gr_cells.subgrid[i] =
                      [x |-> 3 * (gr_into.subgrid % 3) + ((i - 1) % 3),
                       y |-> 3 * (gr_into.subgrid \div 3) + ((i - 1) \div 3)]
        /\ gr_idx \in CellSet(gr_cells.row)
        /\ gr_idx \in CellSet(gr_cells.col)
        /\ gr_idx \in CellSet(gr_cells.subgrid)
        /\ \A s \in 0..(GridSize - 1) :
               /\ (gr_idx \in CellSet(RowIndex_cells(Puzzle_get_rows[s + 1])))
                      <=> (s = gr_into.row)
               /\ (gr_idx \in CellSet(ColumnIndex_cells(Puzzle_get_cols[s + 1])))
                      <=> (s = gr_into.col)
               /\ (gr_idx \in CellSet(SubgridIndex_cells(Puzzle_get_subgrids[s + 1])))
                      <=> (s = gr_into.subgrid)
        /\ PartitionsGrid([s \in 1..GridSize |-> RowIndex_cells(Puzzle_get_rows[s])])
        /\ PartitionsGrid([s \in 1..GridSize |-> ColumnIndex_cells(Puzzle_get_cols[s])])
        /\ PartitionsGrid([s \in 1..GridSize |->
                              SubgridIndex_cells(Puzzle_get_subgrids[s])])

\* the sections of the cell (x = 7, y = 3) are listed: row 3, column 7 and
\* subgrid 5, whose block starts at (6, 3)
C24_Witness ==
    /\ pc = "cells"
    /\ gr_idx = [x |-> 7, y |-> 3]
    /\ gr_into = [row |-> 3, col |-> 7, subgrid |-> 5]
    /\ gr_cells.subgrid[1] = [x |-> 6, y |-> 3]
    /\ gr_cells.subgrid[5] = [x |-> 7, y |-> 4]

\* ---------------------------------------------- claims on Puzzle::from_str

\* a line of the input has fewer than 9 characters
HasShortLine == \E i \in 1..Len(pz_lines) : Len(pz_lines[i]) < GridSize

\* C25, as stated: an input with a line of fewer than 9 characters fails with
\* "Wrong number of cols", an input of fewer than 9 lines fails with "Wrong
\* number of rows", and a Puzzle is returned only when every line of the input
\* supplied a row of 9 cells.
C25_MalformedGridRejected ==
    (pc = "puzzle_parsed") =>
        /\ HasShortLine => (pz_result = Err("Wrong number of cols"))
        /\ (~HasShortLine /\ Len(pz_lines) < GridSize)
               => (pz_result = Err("Wrong number of rows"))
        /\ IsOk(pz_result) => ~HasShortLine

\* ------------------------------- claims on the two from_solution together

\* C26: for every pair of 5-letter words (guess, solution), from_solution of
\* main.rs, whatever the order its letter map is visited in, and from_solution
\* of solve.rs return the same Clues value, and no occurrence counter of the
\* latter is decremented below zero (the subtraction never overflows).
C26_FeedbacksAgree ==
    (pc = "returned") =>
        /\ ~Panicked(fb_main)
        /\ ~Panicked(fb_solve)
        /\ fb_main.clues = fb_solve.clues

\* both have returned for a guess that repeats a letter, one occurrence of it
\* YELLOW, one BLACK and one GREEN: the counter of the letter was decremented
\* twice, to zero
C26_Witness ==
    /\ pc = "returned"
    /\ Len(fb_word) = WordLen
    /\ Len(fb_solution) = WordLen
    /\ \E i, j, k \in 1..WordLen :
           /\ fb_word[i] = fb_word[j]
           /\ fb_word[j] = fb_word[k]
           /\ fb_solve.clues[i] = "GREEN"
           /\ fb_solve.clues[j] = "YELLOW"
           /\ fb_solve.clues[k] = "BLACK"
           /\ fb_main.clues[j] = "YELLOW"

\* ------------------------------------ claims on clues of a fixed solution

\* every clue recorded is a 5-letter guess with its true feedback against s
TrueClues(s) ==
    \A k \in 1..Len(word_clues) :
        /\ Len(word_clues[k].word) = WordLen
        /\ word_clues[k].clues = Canonical(word_clues[k].word, s)

\* C27: when every clue recorded is a 5-letter guess with its true feedback
\* against a word s of the bank, s is in the candidate set of every
\* suggest_word call (main.rs and solve.rs), and the call does not return the
\* empty no-solution value.
C27_SolutionStaysCandidate ==
    Called =>
        \A i \in 1..Len(word_bank) :
            TrueClues(word_bank[i]) =>
                /\ word_bank[i] \in Range(possible_solutions)
                /\ ~Panicked(suggestion)
                /\ Returned => (suggestion.returned # <<>>)

\* suggest_word has returned after two different clues that are the true
\* feedback of a word of the bank, and they have removed another word
C27_Witness ==
    /\ Returned
    /\ Len(word_clues) = 2
    /\ word_clues[1] # word_clues[2]
    /\ \E i \in 1..Len(word_bank) : TrueClues(word_bank[i])
    /\ Len(possible_solutions) < Len(word_bank)

\* ------------------------------------------------- claims on the play loop

\* C28: in the play loop against a solution s of a bank of distinct 5-letter
\* words, with either ranker and either binary, every round that found two
\* candidates or more leaves strictly fewer candidates; the loop comes to a
\* call that finds the single candidate s and returns s; and no more rounds
\* are played than the bank has words.
C28_PlayLoopTerminates ==
    /\ [][(Len(word_clues') = Len(word_clues) + 1) =>
              Len(Candidates(call_binary, word_clues')) < Len(possible_solutions)]_vars
    /\ [](Len(word_clues) <= Len(word_bank))
    /\ <>[](/\ pc = "idle"
            /\ possible_solutions = <<play_solution>>
            /\ suggestion = [returned |-> play_solution])

\* after two rounds, each with two candidates or more, suggest_word has found
\* the solution alone and returned it
C28_Witness ==
    /\ pc = "idle"
    /\ Len(word_bank) = MaxBank
    /\ Len(word_clues) >= 2
    /\ possible_solutions = <<play_solution>>
    /\ suggestion = [returned |-> play_solution]

\* ------------------------------------------------- claims on Solver::solve

\* the cells of a puzzle that are EMPTY
EmptyCells(p) ==
    {idx \in CellSet(Puzzle_get_cells) : Cell_value(p, idx) = EMPTY}

\* C29: Solver::solve terminates: an iteration of the loop that makes an
\* assignment fills a cell that was EMPTY and leaves every cell that was not
\* EMPTY as it was, so the EMPTY cells get strictly fewer; the iterations that
\* make an assignment are no more than the cells that were EMPTY at the call,
\* at most 81; and the loop ends.
C29_SolveTerminates ==
    /\ [][(sv_productive' = sv_productive + 1) =>
              /\ EmptyCells(puzzle') \subseteq EmptyCells(puzzle)
              /\ EmptyCells(puzzle') # EmptyCells(puzzle)
              /\ \A idx \in CellSet(Puzzle_get_cells) \ EmptyCells(puzzle) :
                     Cell_value(puzzle', idx) = Cell_value(puzzle, idx)]_vars
    /\ [](/\ sv_productive + Cardinality(EmptyCells(puzzle))
                 <= Cardinality(EmptyCells(sv_initial))
          /\ sv_productive <= GridSize * GridSize)
    /\ <>(pc = "solved")

\* solve has returned after ten iterations or more that made an assignment,
\* with cells still EMPTY
C29_Witness ==
    /\ pc = "solved"
    /\ sv_productive >= 10
    /\ EmptyCells(puzzle) # {}

\* no row, column or subgrid of the grid is short of a value or repeats one
IsSolution(grid) ==
    /\ EmptyCells(grid) = {}
    /\ Puzzle_is_valid(grid)

\* the grid is a solution of the puzzle: it has the values of its non-empty cells
Completes(grid, p) ==
    /\ IsSolution(grid)
    /\ \A idx \in CellSet(Puzzle_get_cells) \ EmptyCells(p) :
           Cell_value(grid, idx) = Cell_value(p, idx)

\* C30, as stated: if is_valid holds of the puzzle solve is called on, it
\* holds after every iteration of the loop and when solve returns.
C30_ValidityPreserved ==
    Puzzle_is_valid(sv_initial) => Puzzle_is_valid(puzzle)

\* C30, amended: if the puzzle solve is called on has a solution, then after
\* every iteration of the loop and when solve returns the non-empty cells
\* hold the values of that solution, and so is_valid holds, although the
\* assignments of an iteration are computed on the same puzzle and set
\* together.
C30_ValidityPreservedWhenSolvable ==
    Completes(SolvedGrid, sv_initial) =>
        /\ Completes(SolvedGrid, puzzle)
        /\ Puzzle_is_valid(puzzle)

\* an iteration has made assignments on a puzzle with a solution, and the next
\* one has assignments both of last_possible and of last_remaining to make
C30_Witness ==
    /\ pc = "solve"
    /\ change
    /\ sv_productive >= 1
    /\ Completes(SolvedGrid, sv_initial)
    /\ last_possible(puzzle) # <<>>
    /\ last_remaining(puzzle) # <<>>
    /\ \E i \in 1..Len(last_remaining(puzzle)) :
           \A j \in 1..Len(last_possible(puzzle)) :
               last_remaining(puzzle)[i].idx # last_possible(puzzle)[j].idx

====
